---- MODULE Spec2Model ----
(***************************************************************************)
(* Fantasy-cricket assistant: the source clients with their caches, the    *)
(* multi-source aggregator (cricket_data_adapter) and the chat entry       *)
(* points, modelled from the Python sources.                               *)
(*                                                                         *)
(* Times are in seconds, as in the sources (time.time(), os.path.getmtime).*)
(* JSON values are records; a Python exception leaving a function is the   *)
(* field raised = TRUE of the function's result.                           *)
(***************************************************************************)
EXTENDS Integers, Sequences, FiniteSets, TLC

VARIABLES
    now,            \* time.time()
    cbCache,        \* cricbuzz_cache/<endpoint>.json, one entry per endpoint
    apiCache,       \* cache/<endpoint>_<params>.json of cricket_api_client
    scraperCache,   \* cricket_web_scraper.CACHE['live_matches']
    lastCall,       \* what the last client read operation did and returned
    cfg,            \* config: CRICBUZZ_ENABLED, CRICSHEET_ENABLED, CRICKET_API_KEY set
    lookup,         \* what the string functions give for the queries, computed once
    lastAgg,        \* what the last aggregator read did and returned
    playerFile,     \* cricsheet_cache/player_<name>.json
    lastPlayer,     \* what the last get_player_stats did and returned
    chat,           \* the process_cricket_query call in progress
    lastReply,      \* what the last AIManager.process_query returned
    nameCall,       \* the last normalize_player_name call: argument and result
    roster,         \* the records get_player_stats has for the players of the two teams
    recCache,       \* fantasy_recommendations.RECOMMENDATIONS_CACHE
    lastRec,        \* what the last recommendation call did and returned
    lastPitch,      \* what the last get_pitch_conditions returned
    lastScore,      \* what the last call of a scoring function did
    compareCache,   \* RECOMMENDATIONS_CACHE['player_comparisons'] for the two players
    lastCompare,    \* what the last comparison of the two players returned
    fileRole,       \* the role of the record in the player file
    lastRoute,      \* what the rule-based router last answered
    manager,        \* the AIManager object and what its last method call returned
    fetch,          \* the fetch_data_based_on_decision call and its threads
    disk,           \* one cache file, the callers writing it and the last read of it
    sources,        \* what the player sources had to give at the last observed call
    table,          \* cricket_data_reliable.PLAYER_DATA and the last call that read it
    lastPick,       \* what the last get_differential_picks(match_id) returned
    helpLog         \* the last generate_response dispatch and the queries asked so far

playerVars == <<playerFile, lastPlayer>>

chatVars == <<chat, lastReply>>

\* The rule-based router.
routeVars == <<fileRole, lastRoute>>

\* The objects and calls that the actions above them in the call graph leave alone.
extVars == <<manager, fetch, disk, sources, table, lastPick, helpLog>>

\* The calls of the functions that keep no state of their own.
oldLibVars ==
    <<nameCall, roster, recCache, lastRec, lastPitch, lastScore, compareCache, lastCompare,
      fileRole, lastRoute>>

libVars == <<oldLibVars, extVars>>

\* The state of the clients, the aggregator and the chat entry points.
coreVars == <<now, cbCache, apiCache, scraperCache, lastCall, cfg, lookup, lastAgg,
              playerFile, lastPlayer, chat, lastReply>>

vars == <<now, cbCache, apiCache, scraperCache, lastCall, cfg, lookup, lastAgg,
          playerFile, lastPlayer, chat, lastReply, nameCall, roster, recCache, lastRec,
          lastPitch, lastScore, compareCache, lastCompare, fileRole, lastRoute, manager, fetch, disk,
          sources, table, lastPick, helpLog>>

(***************************************************************************)
(* Bounds of the model.                                                    *)
(***************************************************************************)
MaxAsked == 6            \* different queries in one conversation
MaxWrites == 2           \* writes of the cache file by one writer
MaxBlocks == 2           \* flushes one record takes
MaxSetCalls == 4         \* set_default_model calls on one AIManager
ShortTick == 40         \* a step of the client clock within every expiry window
LongTick == 900         \* a step of the client clock past the 15-minute expiry
MaxClientTicks == 2     \* the client clock stops after this many steps

(***************************************************************************)
(* JSON bodies and network outcomes.                                       *)
(***************************************************************************)
NoBody == [shape |-> "none", matches |-> <<>>]

\* Raw Cricbuzz matchInfo objects: started or not, and one whose matchFormat
\* is null, on which the adapter's converter raises.
cbPast == [start |-> "past", fmt |-> "T20"]
cbFuture == [start |-> "future", fmt |-> "T20"]
cbNullFmt == [start |-> "past", fmt |-> "null"]

CbMatchLists == {<<>>, <<cbPast>>, <<cbFuture>>, <<cbNullFmt>>}

\* 2xx bodies the Cricbuzz endpoints can answer with: the typeMatches shape,
\* the empty object, a body whose typeMatches is null (unexpected shape) and
\* the match-centre scorecard.
CbListBodies ==
    {[shape |-> "typeMatches", matches |-> ms] : ms \in CbMatchLists}
        \cup {[shape |-> "emptyobj", matches |-> <<>>],
              [shape |-> "nullTypeMatches", matches |-> <<>>]}

CbScoreBodies ==
    {[shape |-> "scorecard", matches |-> <<>>],
     [shape |-> "emptyobj", matches |-> <<>>]}

\* Raw CricAPI matches: matchStatus and date relative to today.
apiToday == [matchStatus |-> "upcoming", date |-> "today"]
apiLater == [matchStatus |-> "upcoming", date |-> "later"]
apiLive == [matchStatus |-> "live", date |-> "today"]

ApiMatchLists == {<<>>, <<apiToday>>, <<apiLater>>, <<apiLive>>}

\* 2xx bodies of CricAPI: status success with data, status failure, and a
\* JSON array where an object is expected (unexpected shape).
ApiBodies ==
    {[shape |-> "success", matches |-> ms] : ms \in ApiMatchLists}
        \cup {[shape |-> "failure", matches |-> <<>>],
              [shape |-> "array", matches |-> <<>>]}

FailStatus == {"timeout", "http_error", "bad_json"}

Outcomes(bodies) ==
    {[status |-> s, body |-> NoBody] : s \in FailStatus}
        \cup {[status |-> "ok", body |-> b] : b \in bodies}

\* Python truthiness of a loaded JSON value.
Truthy(v) == v.shape \notin {"none", "emptyobj"}

(***************************************************************************)
(* Cache entries: a file (or dict slot) with its data and its mtime.       *)
(***************************************************************************)
Absent == [present |-> FALSE, data |-> NoBody, mtime |-> 0]

Entry(d, t) == [present |-> TRUE, data |-> d, mtime |-> t]

(***************************************************************************)
(* cricbuzz_client.py                                                      *)
(***************************************************************************)
CbEndpoints == {"live"}

CRICBUZZ_CACHE_EXPIRY ==
    [live |-> 60, upcoming |-> 15 * 60, recent |-> 15 * 60, score |-> 60]

cricbuzz_is_cache_valid(c, endpoint_type, t) ==
    /\ c.present
    /\ (t - c.mtime) < CRICBUZZ_CACHE_EXPIRY[endpoint_type]

CbErrorResponse == [shape |-> "errdict", matches |-> <<>>]

\* _make_api_request: [value, cache, fetched, raised].
\* requests raises its JSONDecodeError, a RequestException, from
\* response.json(), so all three failures take the except branch.
cricbuzz_make_api_request(c, o, force_refresh, endpoint_type, t) ==
    IF ~force_refresh /\ cricbuzz_is_cache_valid(c, endpoint_type, t) /\ Truthy(c.data)
    THEN [value |-> c.data, cache |-> c, fetched |-> FALSE, raised |-> FALSE]
    ELSE IF o.status = "ok"
    THEN [value |-> o.body, cache |-> Entry(o.body, t), fetched |-> TRUE, raised |-> FALSE]
    ELSE IF c.present /\ Truthy(c.data)
    THEN [value |-> c.data, cache |-> c, fetched |-> TRUE, raised |-> FALSE]
    ELSE [value |-> CbErrorResponse, cache |-> c, fetched |-> TRUE, raised |-> FALSE]

\* get_live_matches: the matches under typeMatches; iterating a null
\* typeMatches raises TypeError.
cricbuzz_get_live_matches(response) ==
    IF response.shape = "nullTypeMatches"
    THEN [raised |-> TRUE, value |-> <<>>]
    ELSE IF response.shape = "typeMatches"
    THEN [raised |-> FALSE, value |-> response.matches]
    ELSE [raised |-> FALSE, value |-> <<>>]

\* get_upcoming_matches keeps startDate > now, get_recent_matches startDate < now.
cricbuzz_filter(response, start) ==
    IF response.shape = "nullTypeMatches"
    THEN [raised |-> TRUE, value |-> <<>>]
    ELSE IF response.shape = "typeMatches"
    THEN [raised |-> FALSE,
          value |-> SelectSeq(response.matches, LAMBDA m : m.start = start)]
    ELSE [raised |-> FALSE, value |-> <<>>]

cricbuzz_get_upcoming_matches(response) == cricbuzz_filter(response, "future")

cricbuzz_get_recent_matches(response) == cricbuzz_filter(response, "past")

\* get_match_score returns the response of _make_api_request as it is.
cricbuzz_get_match_score(response) == response

(***************************************************************************)
(* cricket_api_client.py                                                   *)
(***************************************************************************)
ApiEndpoints == {"currentMatches", "players", "playerStats"}

API_CACHE_EXPIRY ==
    [currentMatches |-> 15 * 60, matches |-> 15 * 60,
     players |-> 24 * 60 * 60, playerStats |-> 6 * 60 * 60]

api_is_cache_valid(c, endpoint, t) ==
    /\ c.present
    /\ (t - c.mtime) < API_CACHE_EXPIRY[endpoint]

ApiErrorResponse == [shape |-> "failure", matches |-> <<>>]

\* A make_api_request that saved the decoded body before looking at its status.
api_make_api_request_save_first(c, o, force_refresh, endpoint, t) ==
    IF ~force_refresh /\ api_is_cache_valid(c, endpoint, t) /\ Truthy(c.data)
    THEN [value |-> c.data, cache |-> c, fetched |-> FALSE, raised |-> FALSE]
    ELSE IF o.status = "ok" /\ o.body.shape = "array"
    THEN [value |-> NoBody, cache |-> c, fetched |-> TRUE, raised |-> TRUE]
    ELSE IF o.status = "ok" /\ o.body.shape = "success"
    THEN [value |-> o.body, cache |-> Entry(o.body, t), fetched |-> TRUE, raised |-> FALSE]
    ELSE IF c.present /\ Truthy(c.data)
    THEN [value |-> c.data,
          cache |-> IF o.status = "ok" THEN Entry(o.body, t) ELSE c,
          fetched |-> TRUE, raised |-> FALSE]
    ELSE [value |-> ApiErrorResponse,
          cache |-> IF o.status = "ok" THEN Entry(o.body, t) ELSE c,
          fetched |-> TRUE, raised |-> FALSE]

\* make_api_request: data.get("status") on a JSON array raises AttributeError,
\* which the except clause (RequestException) does not catch.
api_make_api_request(c, o, force_refresh, endpoint, t) ==
    IF ~force_refresh /\ api_is_cache_valid(c, endpoint, t) /\ Truthy(c.data)
    THEN [value |-> c.data, cache |-> c, fetched |-> FALSE, raised |-> FALSE]
    ELSE IF o.status = "ok" /\ o.body.shape = "array"
    THEN [value |-> NoBody, cache |-> c, fetched |-> TRUE, raised |-> TRUE]
    ELSE IF o.status = "ok" /\ o.body.shape = "success"
    THEN [value |-> o.body, cache |-> Entry(o.body, t), fetched |-> TRUE, raised |-> FALSE]
    ELSE IF c.present /\ Truthy(c.data)
    THEN [value |-> c.data, cache |-> c, fetched |-> TRUE, raised |-> FALSE]
    ELSE [value |-> ApiErrorResponse, cache |-> c, fetched |-> TRUE, raised |-> FALSE]

\* get_current_matches: data of a success response, else [].
api_get_current_matches(r) ==
    IF r.raised THEN [raised |-> TRUE, value |-> <<>>]
    ELSE IF r.value.shape = "success"
    THEN [raised |-> FALSE, value |-> r.value.matches]
    ELSE [raised |-> FALSE, value |-> <<>>]

\* get_upcoming_matches: the matches whose matchStatus is "upcoming".
api_get_upcoming_matches(r) ==
    IF r.raised THEN [raised |-> TRUE, value |-> <<>>]
    ELSE IF r.value.shape = "success"
    THEN [raised |-> FALSE,
          value |-> SelectSeq(r.value.matches, LAMBDA m : m.matchStatus = "upcoming")]
    ELSE [raised |-> FALSE, value |-> <<>>]

(***************************************************************************)
(* cricket_web_scraper.py                                                  *)
(***************************************************************************)
SCRAPER_LIVE_EXPIRY == 60

\* What one scrape (_scrape_espn_live_matches, _scrape_cricbuzz_live_matches)
\* does: raises, or returns the matches it parsed.
scraped == [shape |-> "scraped", matches |-> <<cbPast>>]

ScrapeOutcomes == {"raises", "empty", "matches"}

\* get_live_matches: [value, cache, fetched].
scraper_get_live_matches(c, espn, cricbuzz, t) ==
    IF c.present /\ (t - c.mtime) < SCRAPER_LIVE_EXPIRY
    THEN [value |-> c.data, cache |-> c, fetched |-> FALSE]
    ELSE IF espn = "matches" \/ cricbuzz = "matches"
    THEN [value |-> scraped, cache |-> Entry(scraped, t), fetched |-> TRUE]
    ELSE [value |-> NoBody, cache |-> c, fetched |-> TRUE]

(***************************************************************************)
(* The client read operations as steps.                                    *)
(***************************************************************************)
NoCall ==
    [client |-> "none", fetched |-> FALSE, failed |-> FALSE, before |-> Absent,
     after |-> Absent, value |-> NoBody, raised |-> FALSE]

\* A fetch failed: the request or the decoding of its body raised, or the
\* API answered with a failure status.
FetchFailed(o) == o.status \in FailStatus \/ o.body.shape = "failure"

\* cricbuzz.get_live_matches(force_refresh)
CricbuzzRead(ep, force_refresh, o) ==
    LET r == cricbuzz_make_api_request(cbCache[ep], o, force_refresh, ep, now)
        w == cricbuzz_get_live_matches(r.value)
    IN  /\ cbCache' = [cbCache EXCEPT ![ep] = r.cache]
        /\ lastCall' = [client |-> "cricbuzz", fetched |-> r.fetched,
                        failed |-> r.fetched /\ FetchFailed(o),
                        before |-> cbCache[ep], after |-> r.cache,
                        value |-> r.value, raised |-> w.raised]
        /\ UNCHANGED <<now, apiCache, scraperCache, cfg, lookup, libVars, lastAgg, playerVars, chatVars>>

\* cricket_api_client.get_current_matches()
CricApiRead(ep, o) ==
    LET r == api_make_api_request(apiCache[ep], o, FALSE, ep, now)
        w == api_get_current_matches(r)
    IN  /\ apiCache' = [apiCache EXCEPT ![ep] = r.cache]
        /\ lastCall' = [client |-> "cricapi", fetched |-> r.fetched,
                        failed |-> r.fetched /\ FetchFailed(o),
                        before |-> apiCache[ep], after |-> r.cache,
                        value |-> r.value, raised |-> w.raised]
        /\ UNCHANGED <<now, cbCache, scraperCache, cfg, lookup, libVars, lastAgg, playerVars, chatVars>>

\* cricket_web_scraper.get_live_matches()
ScraperRead(espn, cricbuzz) ==
    LET r == scraper_get_live_matches(scraperCache, espn, cricbuzz, now)
    IN  /\ scraperCache' = r.cache
        /\ lastCall' = [client |-> "scraper", fetched |-> r.fetched,
                        failed |-> r.fetched /\ espn = "raises" /\ cricbuzz = "raises",
                        before |-> scraperCache, after |-> r.cache,
                        value |-> r.value, raised |-> FALSE]
        /\ UNCHANGED <<now, cbCache, apiCache, cfg, lookup, libVars, lastAgg, playerVars, chatVars>>

ClientTicks == (now \div LongTick) + ((now % LongTick) \div ShortTick)

ClientTime(d) ==
    /\ ClientTicks < MaxClientTicks
    /\ now' = now + d
    /\ UNCHANGED <<cbCache, apiCache, scraperCache, lastCall, cfg, lookup, libVars, lastAgg, playerVars, chatVars>>

(***************************************************************************)
(* cricket_data_adapter.py: the match reads.                               *)
(***************************************************************************)
\* What the source clients can hand to the aggregator: every result of the
\* client read operation over the cache entries it can hold and the outcomes
\* of its fetch.
CbCacheEntries == {Absent} \cup {Entry(b, 0) : b \in CbListBodies}

CbResponses(expiry) ==
    {cricbuzz_make_api_request(c, o, FALSE, expiry, 0).value :
        c \in CbCacheEntries, o \in Outcomes(CbListBodies)}

CbLiveResults == {cricbuzz_get_live_matches(r) : r \in CbResponses("live")}

CbUpcomingResults == {cricbuzz_get_upcoming_matches(r) : r \in CbResponses("upcoming")}

CbRecentResults == {cricbuzz_get_recent_matches(r) : r \in CbResponses("recent")}

CbScoreResponses ==
    {cricbuzz_get_match_score(cricbuzz_make_api_request(c, o, FALSE, "score", 0).value) :
        c \in {Absent} \cup {Entry(b, 0) : b \in CbScoreBodies},
        o \in Outcomes(CbScoreBodies)}

ApiRequests(ep) ==
    {api_make_api_request(c, o, FALSE, ep, 0) :
        c \in {Absent} \cup {Entry(b, 0) : b \in {x \in ApiBodies : x.shape = "success"}},
        o \in Outcomes(ApiBodies)}

ApiCurrentResults == {api_get_current_matches(r) : r \in ApiRequests("currentMatches")}

ApiUpcomingResults == {api_get_upcoming_matches(r) : r \in ApiRequests("matches")}

\* cricsheet.get_matches(date_from, date_to): the index entries in the date
\* range, or an exception (the sort compares a null date with a string).
csMatch == [start |-> "past", fmt |-> "t20"]

CsMatchResults ==
    {[raised |-> TRUE, value |-> <<>>], [raised |-> FALSE, value |-> <<>>],
     [raised |-> FALSE, value |-> <<csMatch>>]}

\* cricsheet.download_match_data(match_type, match_id): the match or None.
CsDownloadResults == {"None", "match"}

NotCalled == [called |-> FALSE, raised |-> FALSE, value |-> <<>>]

Called(r) == [called |-> TRUE, raised |-> r.raised, value |-> r.value]

\* Canonical match records.  source is the record's "source" key ("absent"
\* when the record has none), pitch whether it has pitch_conditions, err
\* whether it has an "error" key.
MatchRecord(source, status, pitch, teams, err) ==
    [source |-> source, status |-> status, pitch |-> pitch, teams |-> teams, err |-> err]

\* cricket_data_reliable.LIVE_MATCH_DATA and MATCH_DATA.
FALLBACK_LIVE_MATCH_DATA ==
    [i \in 1..2 |-> MatchRecord("absent", "score", FALSE, "known", FALSE)]

FALLBACK_MATCH_DATA ==
    [i \in 1..5 |-> MatchRecord("absent", "Upcoming", TRUE, "known", FALSE)]

\* _convert_cricbuzz_match: match_format.upper() raises on a null matchFormat.
convert_cricbuzz_match(m, is_live) ==
    [raised |-> m.fmt = "null",
     value |-> MatchRecord("Cricbuzz", IF is_live THEN "Live: status" ELSE "status",
                           TRUE, "known", FALSE)]

\* _convert_cricsheet_match
convert_cricsheet_match(m) ==
    [raised |-> FALSE,
     value |-> MatchRecord("Cricsheet", "Upcoming", TRUE, "known", FALSE)]

\* _convert_match_data: the record it builds has no "source" key.
convert_match_data(m, is_live) ==
    [raised |-> FALSE,
     value |-> MatchRecord("absent", IF is_live THEN "Live" ELSE "Upcoming",
                           TRUE, "known", FALSE)]

\* [conv(m) for m in ms]: raises when one conversion raises.
ConvertAll(ms, conv(_)) ==
    [raised |-> \E i \in 1..Len(ms) : conv(ms[i]).raised,
     value |-> [i \in 1..Len(ms) |-> conv(ms[i]).value]]

\* A tier of the chain succeeded: the source is enabled, its call returned a
\* non-empty list and the list converted.
TierOk(enabled, r, conv(_)) ==
    enabled /\ ~r.raised /\ r.value # <<>> /\ ~ConvertAll(r.value, conv).raised

AggResult(op, value, origin, cb, cs, api) ==
    [op |-> op, value |-> value, origin |-> origin, raised |-> FALSE,
     cb |-> cb, cs |-> cs, api |-> api]

\* A get_live_cricket_matches that asked both sources before choosing.
get_live_cricket_matches_ask_all(c, cb, api) ==
    LET convCb(m) == convert_cricbuzz_match(m, TRUE)
        convApi(m) == convert_match_data(m, TRUE)
        cbc == IF c.cricbuzz THEN Called(cb) ELSE NotCalled
        apic == IF c.api THEN Called(api) ELSE NotCalled
    IN  IF TierOk(c.cricbuzz, cb, convCb)
        THEN AggResult("live", ConvertAll(cb.value, convCb).value, "Cricbuzz",
                       cbc, NotCalled, apic)
        ELSE IF TierOk(c.api, api, convApi)
        THEN AggResult("live", ConvertAll(api.value, convApi).value, "CricAPI",
                       cbc, NotCalled, apic)
        ELSE AggResult("live", FALLBACK_LIVE_MATCH_DATA, "fallback", cbc, NotCalled, apic)

\* get_live_cricket_matches: Cricbuzz, CricAPI, fallback.
get_live_cricket_matches(c, cb, api) ==
    LET convCb(m) == convert_cricbuzz_match(m, TRUE)
        convApi(m) == convert_match_data(m, TRUE)
    IN  IF TierOk(c.cricbuzz, cb, convCb)
        THEN AggResult("live", ConvertAll(cb.value, convCb).value, "Cricbuzz",
                       Called(cb), NotCalled, NotCalled)
        ELSE LET cbc == IF c.cricbuzz THEN Called(cb) ELSE NotCalled
             IN  IF TierOk(c.api, api, convApi)
                 THEN AggResult("live", ConvertAll(api.value, convApi).value, "CricAPI",
                                cbc, NotCalled, Called(api))
                 ELSE AggResult("live", FALLBACK_LIVE_MATCH_DATA, "fallback",
                                cbc, NotCalled, IF c.api THEN Called(api) ELSE NotCalled)

\* get_upcoming_matches: Cricbuzz, Cricsheet, CricAPI, fallback.
get_upcoming_matches(c, cb, cs, api) ==
    LET convCb(m) == convert_cricbuzz_match(m, FALSE)
        convApi(m) == convert_match_data(m, FALSE)
        cbc == IF c.cricbuzz THEN Called(cb) ELSE NotCalled
        csc == IF c.cricsheet THEN Called(cs) ELSE NotCalled
        apic == IF c.api THEN Called(api) ELSE NotCalled
    IN  IF TierOk(c.cricbuzz, cb, convCb)
        THEN AggResult("upcoming", ConvertAll(cb.value, convCb).value, "Cricbuzz",
                       cbc, NotCalled, NotCalled)
        ELSE IF TierOk(c.cricsheet, cs, convert_cricsheet_match)
        THEN AggResult("upcoming", ConvertAll(cs.value, convert_cricsheet_match).value,
                       "Cricsheet", cbc, csc, NotCalled)
        ELSE IF TierOk(c.api, api, convApi)
        THEN AggResult("upcoming", ConvertAll(api.value, convApi).value, "CricAPI",
                       cbc, csc, apic)
        ELSE AggResult("upcoming", FALLBACK_MATCH_DATA, "fallback", cbc, csc, apic)

\* The CricAPI tier of get_recent_matches keeps the upcoming matches whose
\* date is not after today.
started(ms) == SelectSeq(ms, LAMBDA m : m.date # "later")

\* get_recent_matches: Cricbuzz, Cricsheet, CricAPI (upcoming matches already
\* started), fallback.
get_recent_matches(c, cb, cs, api) ==
    LET convCb(m) == convert_cricbuzz_match(m, FALSE)
        convApi(m) == convert_match_data(m, FALSE)
        cbc == IF c.cricbuzz THEN Called(cb) ELSE NotCalled
        csc == IF c.cricsheet THEN Called(cs) ELSE NotCalled
        apic == IF c.api THEN Called(api) ELSE NotCalled
        recent == [raised |-> api.raised, value |-> started(api.value)]
    IN  IF TierOk(c.cricbuzz, cb, convCb)
        THEN AggResult("recent", ConvertAll(cb.value, convCb).value, "Cricbuzz",
                       cbc, NotCalled, NotCalled)
        ELSE IF TierOk(c.cricsheet, cs, convert_cricsheet_match)
        THEN AggResult("recent", ConvertAll(cs.value, convert_cricsheet_match).value,
                       "Cricsheet", cbc, csc, NotCalled)
        ELSE IF TierOk(c.api, recent, convApi)
        THEN AggResult("recent", ConvertAll(recent.value, convApi).value, "CricAPI",
                       cbc, csc, apic)
        ELSE AggResult("recent", FALLBACK_MATCH_DATA, "fallback", cbc, csc, apic)

\* get_match_details: Cricbuzz when its response is truthy, Cricsheet for
\* t20/odi/test ids, else the default record with the "error" key.  The
\* Cricbuzz record is built with .get() defaults from whatever dict came back.
MatchIds == {"12345", "t20_1"}

get_match_details(c, match_id, cb, cs) ==
    LET cbr == [raised |-> FALSE, value |-> <<cb>>]
        csr == [raised |-> FALSE, value |-> IF cs = "match" THEN <<csMatch>> ELSE <<>>]
        cbc == IF c.cricbuzz THEN Called(cbr) ELSE NotCalled
    IN  IF c.cricbuzz /\ Truthy(cb)
        THEN AggResult("details",
                       <<MatchRecord("Cricbuzz", IF cb.shape = "scorecard" THEN "status" ELSE "Unknown",
                                     TRUE,
                                     IF cb.shape = "scorecard" THEN "known" ELSE "Unknown vs Unknown",
                                     FALSE)>>,
                       "Cricbuzz", cbc, NotCalled, NotCalled)
        ELSE IF c.cricsheet /\ match_id = "t20_1" /\ cs = "match"
        THEN AggResult("details", <<MatchRecord("Cricsheet", "status", TRUE, "known", FALSE)>>,
                       "Cricsheet", cbc, Called(csr), NotCalled)
        ELSE AggResult("details",
                       <<MatchRecord("absent", "Unknown", FALSE, "Unknown vs Unknown", TRUE)>>,
                       "default", cbc,
                       IF c.cricsheet /\ match_id = "t20_1" THEN Called(csr) ELSE NotCalled,
                       NotCalled)

(***************************************************************************)
(* The aggregator reads as steps.                                          *)
(***************************************************************************)
NoAgg == AggResult("none", <<>>, "none", NotCalled, NotCalled, NotCalled)

AggUnchanged ==
    UNCHANGED <<now, cbCache, apiCache, scraperCache, lastCall, cfg, lookup, libVars, playerVars, chatVars>>

LiveMatches ==
    \E cb \in CbLiveResults, api \in ApiCurrentResults :
        /\ lastAgg' = get_live_cricket_matches(cfg, cb, api)
        /\ AggUnchanged

UpcomingMatches ==
    \E cb \in CbUpcomingResults, cs \in CsMatchResults, api \in ApiUpcomingResults :
        /\ lastAgg' = get_upcoming_matches(cfg, cb, cs, api)
        /\ AggUnchanged

RecentMatches ==
    \E cb \in CbRecentResults, cs \in CsMatchResults, api \in ApiUpcomingResults :
        /\ lastAgg' = get_recent_matches(cfg, cb, cs, api)
        /\ AggUnchanged

\* A pitch_conditions dict from its three numbers; {} is the empty function.
PitchDict(t) == [batting_friendly |-> t[1], pace_friendly |-> t[2], spin_friendly |-> t[3]]

\* The numbers of a pitch_conditions dict: random.randint(4, 8) three times
\* in the converters and in get_pitch_conditions, constants from 3 to 9 in
\* cricket_data_reliable.MATCH_DATA.
PitchTriples == {<<4, 4, 4>>, <<8, 8, 8>>, <<5, 3, 9>>, <<9, 4, 3>>}

NoMatchRecord == MatchRecord("none", "none", FALSE, "none", FALSE)

NoPitchCall == [op |-> "none", value |-> <<>>, first |-> NoMatchRecord]

\* get_pitch_conditions(venue).  matches is get_upcoming_matches() +
\* get_live_cricket_matches() + get_recent_matches(); hit is the position of
\* the first record whose venue contains the argument (0: none does); stored
\* are the numbers of that record's pitch_conditions if it has any, drawn
\* the numbers the function draws itself.
get_pitch_conditions(matches, hit, stored, drawn) ==
    IF hit # 0
    THEN [op |-> "get_pitch_conditions",
          value |-> IF matches[hit].pitch THEN PitchDict(stored) ELSE <<>>,
          first |-> matches[hit]]
    ELSE [op |-> "get_pitch_conditions", value |-> PitchDict(drawn), first |-> NoMatchRecord]

\* get_pitch_conditions(venue) is called: the three reads of the aggregator
\* and the venue test.
PitchConditions ==
    /\ lastPitch' \in UNION
         {{get_pitch_conditions(m, hit, stored, drawn) :
             hit \in 0..Len(m), stored \in PitchTriples,
             drawn \in {t \in PitchTriples : \A i \in 1..3 : t[i] \in 4..8}} :
            m \in {up \o live \o rec :
                     up \in {get_upcoming_matches(cfg, cb, cs, api).value :
                                cb \in CbUpcomingResults, cs \in CsMatchResults,
                                api \in ApiUpcomingResults},
                     live \in {get_live_cricket_matches(cfg, cb, api).value :
                                cb \in CbLiveResults, api \in ApiCurrentResults},
                     rec \in {get_recent_matches(cfg, cb, cs, api).value :
                                cb \in CbRecentResults, cs \in CsMatchResults,
                                api \in ApiUpcomingResults}}}
    /\ UNCHANGED <<extVars, coreVars, nameCall, roster, recCache, lastRec, lastScore, compareCache,
                   lastCompare, routeVars>>

MatchDetails ==
    \E id \in MatchIds, cb \in CbScoreResponses, cs \in CsDownloadResults :
        /\ lastAgg' = get_match_details(cfg, id, cb, cs)
        /\ AggUnchanged

(***************************************************************************)
(* cricket_data_adapter.py: get_player_stats, with the player file it      *)
(* shares with cricsheet_parser.get_player_stats.                          *)
(***************************************************************************)
\* A player record.  hist stands for the historical fields (team, role,
\* batting_avg, bowling_avg, strike_rate, economy, fantasy_points_avg,
\* ownership, price) and names where their values were computed from;
\* recent_form and recent_wickets name the list they hold; last_updated is
\* -1 and original_query "" when the record has no such key.
PlayerRec(shape, mp, hist, rf, rw, source, name, lu, oq) ==
    [shape |-> shape, matches_played |-> mp, hist |-> hist, recent_form |-> rf,
     recent_wickets |-> rw, source |-> source, name |-> name,
     last_updated |-> lu, original_query |-> oq]

NoPlayer == PlayerRec("none", 0, "none", "none", "none", "absent", "", -1, "")

AbsentFile == [present |-> FALSE, data |-> NoPlayer, mtime |-> 0]

Queries == {"Virat Kohli", "virat kolhi"}

\* A Python str is the sequence of its characters; Spell gives the
\* characters of the string literals of the source and of the queries.
Spell(w) ==
    CASE w = "virat kolhi" -> <<"v", "i", "r", "a", "t", " ", "k", "o", "l", "h", "i">>
      [] w = "virat kohli" -> <<"v", "i", "r", "a", "t", " ", "k", "o", "h", "l", "i">>
      [] w = "kolhi" -> <<"k", "o", "l", "h", "i">>
      [] w = "kohli" -> <<"k", "o", "h", "l", "i">>
      [] w = "rohit" -> <<"r", "o", "h", "i", "t">>
      [] w = "rohit sharma" -> <<"r", "o", "h", "i", "t", " ", "s", "h", "a", "r", "m", "a">>
      [] w = "dhoni" -> <<"d", "h", "o", "n", "i">>
      [] w = "ms dhoni" -> <<"m", "s", " ", "d", "h", "o", "n", "i">>
      [] w = "ms" -> <<"m", "s">>
      [] w = "williamson" -> <<"w", "i", "l", "l", "i", "a", "m", "s", "o", "n">>
      [] w = "kane williamson" -> <<"k", "a", "n", "e", " ", "w", "i", "l", "l", "i", "a", "m", "s", "o", "n">>
      [] w = "kane" -> <<"k", "a", "n", "e">>
      [] w = "smith" -> <<"s", "m", "i", "t", "h">>
      [] w = "steve smith" -> <<"s", "t", "e", "v", "e", " ", "s", "m", "i", "t", "h">>
      [] w = "steve" -> <<"s", "t", "e", "v", "e">>
      [] w = "babar" -> <<"b", "a", "b", "a", "r">>
      [] w = "babar azam" -> <<"b", "a", "b", "a", "r", " ", "a", "z", "a", "m">>
      [] w = "azam" -> <<"a", "z", "a", "m">>
      [] w = "bumrah" -> <<"b", "u", "m", "r", "a", "h">>
      [] w = "jasprit bumrah" -> <<"j", "a", "s", "p", "r", "i", "t", " ", "b", "u", "m", "r", "a", "h">>
      [] w = "jasprit" -> <<"j", "a", "s", "p", "r", "i", "t">>
      [] w = "stokes" -> <<"s", "t", "o", "k", "e", "s">>
      [] w = "ben stokes" -> <<"b", "e", "n", " ", "s", "t", "o", "k", "e", "s">>
      [] w = "ben" -> <<"b", "e", "n">>
      [] w = "rabada" -> <<"r", "a", "b", "a", "d", "a">>
      [] w = "kagiso rabada" -> <<"k", "a", "g", "i", "s", "o", " ", "r", "a", "b", "a", "d", "a">>
      [] w = "kagiso" -> <<"k", "a", "g", "i", "s", "o">>
      [] w = "rashid" -> <<"r", "a", "s", "h", "i", "d">>
      [] w = "rashid khan" -> <<"r", "a", "s", "h", "i", "d", " ", "k", "h", "a", "n">>
      [] w = "khan" -> <<"k", "h", "a", "n">>
      [] w = "Virat Kohli" -> <<"V", "i", "r", "a", "t", " ", "K", "o", "h", "l", "i">>
      [] w = "Rohit Sharma" -> <<"R", "o", "h", "i", "t", " ", "S", "h", "a", "r", "m", "a">>
      [] w = "MS Dhoni" -> <<"M", "S", " ", "D", "h", "o", "n", "i">>
      [] w = "Kane Williamson" -> <<"K", "a", "n", "e", " ", "W", "i", "l", "l", "i", "a", "m", "s", "o", "n">>
      [] w = "Steve Smith" -> <<"S", "t", "e", "v", "e", " ", "S", "m", "i", "t", "h">>
      [] w = "Babar Azam" -> <<"B", "a", "b", "a", "r", " ", "A", "z", "a", "m">>
      [] w = "Jasprit Bumrah" -> <<"J", "a", "s", "p", "r", "i", "t", " ", "B", "u", "m", "r", "a", "h">>
      [] w = "Ben Stokes" -> <<"B", "e", "n", " ", "S", "t", "o", "k", "e", "s">>
      [] w = "Kagiso Rabada" -> <<"K", "a", "g", "i", "s", "o", " ", "R", "a", "b", "a", "d", "a">>
      [] w = "Rashid Khan" -> <<"R", "a", "s", "h", "i", "d", " ", "K", "h", "a", "n">>
      [] w = "virat" -> <<"v", "i", "r", "a", "t">>
      [] w = "sharma" -> <<"s", "h", "a", "r", "m", "a">>
      [] w = "what are " -> <<"w", "h", "a", "t", " ", "a", "r", "e", " ">>
      [] w = " - statistics" -> <<" ", "-", " ", "s", "t", "a", "t", "i", "s", "t", "i", "c", "s">>
      [] w = " " -> <<" ">>
      [] w = "king" -> <<"k", "i", "n", "g">>
      [] w = "Virat Kolhi" -> <<"V", "i", "r", "a", "t", " ", "K", "o", "l", "h", "i">>
      [] w = "Virat" -> <<"V", "i", "r", "a", "t">>
      [] w = "Kohli" -> <<"K", "o", "h", "l", "i">>
      [] w = "hi" -> <<"h", "i">>
      [] w = "hello" -> <<"h", "e", "l", "l", "o">>
      [] w = "hey" -> <<"h", "e", "y">>
      [] w = "greetings" -> <<"g", "r", "e", "e", "t", "i", "n", "g", "s">>
      [] w = "sup" -> <<"s", "u", "p">>
      [] w = "what's up" -> <<"w", "h", "a", "t", "'", "s", " ", "u", "p">>
      [] w = "thanks" -> <<"t", "h", "a", "n", "k", "s">>
      [] w = "thank you" -> <<"t", "h", "a", "n", "k", " ", "y", "o", "u">>
      [] w = "thx" -> <<"t", "h", "x">>
      [] w = "ty" -> <<"t", "y">>
      [] w = "stats" -> <<"s", "t", "a", "t", "s">>
      [] w = "statistics" -> <<"s", "t", "a", "t", "i", "s", "t", "i", "c", "s">>
      [] w = "info" -> <<"i", "n", "f", "o">>
      [] w = "information" -> <<"i", "n", "f", "o", "r", "m", "a", "t", "i", "o", "n">>
      [] w = "about" -> <<"a", "b", "o", "u", "t">>
      [] w = "for" -> <<"f", "o", "r">>
      [] w = "on" -> <<"o", "n">>
      [] w = "Show me stats for Virat Kohli" -> <<"S", "h", "o", "w", " ", "m", "e", " ", "s", "t", "a", "t", "s", " ", "f", "o", "r", " ", "V", "i", "r", "a", "t", " ", "K", "o", "h", "l", "i">>
      [] w = "Show me stats for Rohit Sharma" -> <<"S", "h", "o", "w", " ", "m", "e", " ", "s", "t", "a", "t", "s", " ", "f", "o", "r", " ", "R", "o", "h", "i", "t", " ", "S", "h", "a", "r", "m", "a">>
      [] w = "thanks for the info on Virat Kohli" -> <<"t", "h", "a", "n", "k", "s", " ", "f", "o", "r", " ", "t", "h", "e", " ", "i", "n", "f", "o", " ", "o", "n", " ", "V", "i", "r", "a", "t", " ", "K", "o", "h", "l", "i">>
      [] w = "stats for virat kolhi" -> <<"s", "t", "a", "t", "s", " ", "f", "o", "r", " ", "v", "i", "r", "a", "t", " ", "k", "o", "l", "h", "i">>
      [] w = "info about Virat Kohli" -> <<"i", "n", "f", "o", " ", "a", "b", "o", "u", "t", " ", "V", "i", "r", "a", "t", " ", "K", "o", "h", "l", "i">>

\* The characters of the string literals of the recommendation tables and of
\* the patterns and examples of the rule-based assistant.
Chars(w) ==
    CASE w = "India" -> <<"I", "n", "d", "i", "a">>
      [] w = "New Zealand" -> <<"N", "e", "w", " ", "Z", "e", "a", "l", "a", "n", "d">>
      [] w = "Batsman" -> <<"B", "a", "t", "s", "m", "a", "n">>
      [] w = "Bowler" -> <<"B", "o", "w", "l", "e", "r">>
      [] w = "india" -> <<"i", "n", "d", "i", "a">>
      [] w = "bowler" -> <<"b", "o", "w", "l", "e", "r">>
      [] w = "" -> <<>>
      [] w = "recommend" -> <<"r", "e", "c", "o", "m", "m", "e", "n", "d">>
      [] w = "suggest" -> <<"s", "u", "g", "g", "e", "s", "t">>
      [] w = "best" -> <<"b", "e", "s", "t">>
      [] w = "top" -> <<"t", "o", "p">>
      [] w = "pick" -> <<"p", "i", "c", "k">>
      [] w = "rules" -> <<"r", "u", "l", "e", "s">>
      [] w = "scoring" -> <<"s", "c", "o", "r", "i", "n", "g">>
      [] w = "points" -> <<"p", "o", "i", "n", "t", "s">>
      [] w = "how to play" -> <<"h", "o", "w", " ", "t", "o", " ", "p", "l", "a", "y">>
      [] w = "how to score" -> <<"h", "o", "w", " ", "t", "o", " ", "s", "c", "o", "r", "e">>
      [] w = "how do play" -> <<"h", "o", "w", " ", "d", "o", " ", "p", "l", "a", "y">>
      [] w = "how do score" -> <<"h", "o", "w", " ", "d", "o", " ", "s", "c", "o", "r", "e">>
      [] w = "fantasy rules" -> <<"f", "a", "n", "t", "a", "s", "y", " ", "r", "u", "l", "e", "s">>
      [] w = "fantasy points" -> <<"f", "a", "n", "t", "a", "s", "y", " ", "p", "o", "i", "n", "t", "s">>
      [] w = "fantasy scoring" -> <<"f", "a", "n", "t", "a", "s", "y", " ", "s", "c", "o", "r", "i", "n", "g">>
      [] w = "pitch" -> <<"p", "i", "t", "c", "h">>
      [] w = "ground" -> <<"g", "r", "o", "u", "n", "d">>
      [] w = "stadium" -> <<"s", "t", "a", "d", "i", "u", "m">>
      [] w = "venue" -> <<"v", "e", "n", "u", "e">>
      [] w = "condition" -> <<"c", "o", "n", "d", "i", "t", "i", "o", "n">>
      [] w = "conditions" -> <<"c", "o", "n", "d", "i", "t", "i", "o", "n", "s">>
      [] w = "in" -> <<"i", "n">>
      [] w = "at" -> <<"a", "t">>
      [] w = "of" -> <<"o", "f">>
      [] w = "captain" -> <<"c", "a", "p", "t", "a", "i", "n">>
      [] w = "vice captain" -> <<"v", "i", "c", "e", " ", "c", "a", "p", "t", "a", "i", "n">>
      [] w = "vice-captain" -> <<"v", "i", "c", "e", "-", "c", "a", "p", "t", "a", "i", "n">>
      [] w = "vc" -> <<"v", "c">>
      [] w = "c" -> <<"c">>
      [] w = "who should be my captain" -> <<"w", "h", "o", " ", "s", "h", "o", "u", "l", "d", " ", "b", "e", " ", "m", "y", " ", "c", "a", "p", "t", "a", "i", "n">>
      [] w = "who should be  captain" -> <<"w", "h", "o", " ", "s", "h", "o", "u", "l", "d", " ", "b", "e", " ", " ", "c", "a", "p", "t", "a", "i", "n">>
      [] w = "who should i pick as my captain" -> <<"w", "h", "o", " ", "s", "h", "o", "u", "l", "d", " ", "i", " ", "p", "i", "c", "k", " ", "a", "s", " ", "m", "y", " ", "c", "a", "p", "t", "a", "i", "n">>
      [] w = "who should i pick as  captain" -> <<"w", "h", "o", " ", "s", "h", "o", "u", "l", "d", " ", "i", " ", "p", "i", "c", "k", " ", "a", "s", " ", " ", "c", "a", "p", "t", "a", "i", "n">>
      [] w = "matches" -> <<"m", "a", "t", "c", "h", "e", "s">>
      [] w = "schedule" -> <<"s", "c", "h", "e", "d", "u", "l", "e">>
      [] w = "fixture" -> <<"f", "i", "x", "t", "u", "r", "e">>
      [] w = "upcoming" -> <<"u", "p", "c", "o", "m", "i", "n", "g">>
      [] w = "next match" -> <<"n", "e", "x", "t", " ", "m", "a", "t", "c", "h">>
      [] w = "recent" -> <<"r", "e", "c", "e", "n", "t">>
      [] w = "last" -> <<"l", "a", "s", "t">>
      [] w = "previous" -> <<"p", "r", "e", "v", "i", "o", "u", "s">>
      [] w = "completed" -> <<"c", "o", "m", "p", "l", "e", "t", "e", "d">>
      [] w = "finished" -> <<"f", "i", "n", "i", "s", "h", "e", "d">>
      [] w = "results" -> <<"r", "e", "s", "u", "l", "t", "s">>
      [] w = "live" -> <<"l", "i", "v", "e">>
      [] w = "current" -> <<"c", "u", "r", "r", "e", "n", "t">>
      [] w = "ongoing" -> <<"o", "n", "g", "o", "i", "n", "g">>
      [] w = "today" -> <<"t", "o", "d", "a", "y">>
      [] w = "now" -> <<"n", "o", "w">>
      [] w = "playing" -> <<"p", "l", "a", "y", "i", "n", "g">>
      [] w = "match" -> <<"m", "a", "t", "c", "h">>
      [] w = "game" -> <<"g", "a", "m", "e">>
      [] w = "scorecard" -> <<"s", "c", "o", "r", "e", "c", "a", "r", "d">>
      [] w = "details" -> <<"d", "e", "t", "a", "i", "l", "s">>
      [] w = "score" -> <<"s", "c", "o", "r", "e">>
      [] w = "id" -> <<"i", "d">>
      [] w = "compare" -> <<"c", "o", "m", "p", "a", "r", "e">>
      [] w = "versus" -> <<"v", "e", "r", "s", "u", "s">>
      [] w = "vs" -> <<"v", "s">>
      [] w = "difference between " -> <<"d", "i", "f", "f", "e", "r", "e", "n", "c", "e", " ", "b", "e", "t", "w", "e", "e", "n", " ">>
      [] w = " and " -> <<" ", "a", "n", "d", " ">>
      [] w = "form" -> <<"f", "o", "r", "m">>
      [] w = "performance" -> <<"p", "e", "r", "f", "o", "r", "m", "a", "n", "c", "e">>
      [] w = "how is " -> <<"h", "o", "w", " ", "i", "s", " ">>
      [] w = " playing" -> <<" ", "p", "l", "a", "y", "i", "n", "g">>
      [] w = "How is Bumrah playing?" -> <<"H", "o", "w", " ", "i", "s", " ", "B", "u", "m", "r", "a", "h", " ", "p", "l", "a", "y", "i", "n", "g", "?">>
      [] w = "Suggest batsmen for today's match" -> <<"S", "u", "g", "g", "e", "s", "t", " ", "b", "a", "t", "s", "m", "e", "n", " ", "f", "o", "r", " ", "t", "o", "d", "a", "y", "'", "s", " ", "m", "a", "t", "c", "h">>
      [] w = "Explain fantasy cricket scoring" -> <<"E", "x", "p", "l", "a", "i", "n", " ", "f", "a", "n", "t", "a", "s", "y", " ", "c", "r", "i", "c", "k", "e", "t", " ", "s", "c", "o", "r", "i", "n", "g">>
      [] w = "Pitch conditions in Mumbai" -> <<"P", "i", "t", "c", "h", " ", "c", "o", "n", "d", "i", "t", "i", "o", "n", "s", " ", "i", "n", " ", "M", "u", "m", "b", "a", "i">>
      [] w = "Who should be my captain?" -> <<"W", "h", "o", " ", "s", "h", "o", "u", "l", "d", " ", "b", "e", " ", "m", "y", " ", "c", "a", "p", "t", "a", "i", "n", "?">>
      [] w = "Show upcoming matches" -> <<"S", "h", "o", "w", " ", "u", "p", "c", "o", "m", "i", "n", "g", " ", "m", "a", "t", "c", "h", "e", "s">>
      [] w = "Show recent match results" -> <<"S", "h", "o", "w", " ", "r", "e", "c", "e", "n", "t", " ", "m", "a", "t", "c", "h", " ", "r", "e", "s", "u", "l", "t", "s">>
      [] w = "Show live matches" -> <<"S", "h", "o", "w", " ", "l", "i", "v", "e", " ", "m", "a", "t", "c", "h", "e", "s">>
      [] w = "Match details for 12345" -> <<"M", "a", "t", "c", "h", " ", "d", "e", "t", "a", "i", "l", "s", " ", "f", "o", "r", " ", "1", "2", "3", "4", "5">>
      [] w = "Compare Rohit and Kohli" -> <<"C", "o", "m", "p", "a", "r", "e", " ", "R", "o", "h", "i", "t", " ", "a", "n", "d", " ", "K", "o", "h", "l", "i">>
      [] w = "Bumrah" -> <<"B", "u", "m", "r", "a", "h">>
      [] w = "Well played" -> <<"W", "e", "l", "l", " ", "p", "l", "a", "y", "e", "d">>
      [] OTHER -> Spell(w)

UpperCase == <<"A", "B", "C", "D", "E", "F", "G", "H", "I", "J", "K", "L", "M", "N", "O", "P", "Q", "R", "S", "T", "U", "V", "W", "X", "Y", "Z">>
LowerCase == <<"a", "b", "c", "d", "e", "f", "g", "h", "i", "j", "k", "l", "m", "n", "o", "p", "q", "r", "s", "t", "u", "v", "w", "x", "y", "z">>

\* str.lower() and str.upper() on one character.
ToLower(c) ==
    IF \E i \in 1..26 : UpperCase[i] = c
    THEN LowerCase[CHOOSE i \in 1..26 : UpperCase[i] = c] ELSE c

ToUpper(c) ==
    IF \E i \in 1..26 : LowerCase[i] = c
    THEN UpperCase[CHOOSE i \in 1..26 : LowerCase[i] = c] ELSE c

\* str.lower()
Lower(s) == [i \in 1..Len(s) |-> ToLower(s[i])]

\* str.capitalize(): the first character upper-cased, the rest lower-cased.
Capitalize(s) == [i \in 1..Len(s) |-> IF i = 1 THEN ToUpper(s[i]) ELSE ToLower(s[i])]

\* p occurs in s at position i.
StartsAt(s, p, i) ==
    /\ i >= 1
    /\ i + Len(p) - 1 <= Len(s)
    /\ SubSeq(s, i, i + Len(p) - 1) = p

\* str.find(p, from): the first position at or after from where p occurs, 0
\* when there is none.
Find(s, p, from) ==
    IF \E i \in from..Len(s) : StartsAt(s, p, i)
    THEN CHOOSE i \in from..Len(s) :
            StartsAt(s, p, i) /\ \A j \in from..(i - 1) : ~StartsAt(s, p, j)
    ELSE 0

\* p in s
Contains(s, p) == Find(s, p, 1) # 0

\* str.replace(p, r): every occurrence of p, left to right, without overlap.
RECURSIVE Replace(_, _, _)
Replace(s, p, r) ==
    IF Len(s) < Len(p) \/ p = <<>> THEN s
    ELSE IF StartsAt(s, p, 1)
    THEN r \o Replace(SubSeq(s, Len(p) + 1, Len(s)), p, r)
    ELSE <<Head(s)>> \o Replace(Tail(s), p, r)

\* str.split(): the words between runs of spaces.
RECURSIVE Split(_)
Split(s) ==
    IF s = <<>> THEN <<>>
    ELSE IF Head(s) = " " THEN Split(Tail(s))
    ELSE LET sp == Find(s, <<" ">>, 1)
             n  == IF sp = 0 THEN Len(s) ELSE sp - 1
         IN  <<SubSeq(s, 1, n)>> \o Split(SubSeq(s, n + 1, Len(s)))

\* " ".join(words)
RECURSIVE Join(_)
Join(words) ==
    IF words = <<>> THEN <<>>
    ELSE IF Len(words) = 1 THEN words[1]
    ELSE words[1] \o <<" ">> \o Join(Tail(words))

\* The two dictionaries of normalize_player_name, in insertion order (the
\* order the partial-match loop visits them).
name_corrections ==
    <<
       <<Spell("virat kolhi"), Spell("virat kohli")>>,
       <<Spell("kolhi"), Spell("kohli")>>,
       <<Spell("rohit"), Spell("rohit sharma")>>,
       <<Spell("dhoni"), Spell("ms dhoni")>>,
       <<Spell("ms"), Spell("ms dhoni")>>,
       <<Spell("williamson"), Spell("kane williamson")>>,
       <<Spell("kane"), Spell("kane williamson")>>,
       <<Spell("smith"), Spell("steve smith")>>,
       <<Spell("steve"), Spell("steve smith")>>,
       <<Spell("babar"), Spell("babar azam")>>,
       <<Spell("azam"), Spell("babar azam")>>,
       <<Spell("bumrah"), Spell("jasprit bumrah")>>,
       <<Spell("jasprit"), Spell("jasprit bumrah")>>,
       <<Spell("stokes"), Spell("ben stokes")>>,
       <<Spell("ben"), Spell("ben stokes")>>,
       <<Spell("rabada"), Spell("kagiso rabada")>>,
       <<Spell("kagiso"), Spell("kagiso rabada")>>,
       <<Spell("rashid"), Spell("rashid khan")>>,
       <<Spell("khan"), Spell("rashid khan")>>
    >>

canonical_names ==
    <<
       <<Spell("virat kohli"), Spell("Virat Kohli")>>,
       <<Spell("rohit sharma"), Spell("Rohit Sharma")>>,
       <<Spell("ms dhoni"), Spell("MS Dhoni")>>,
       <<Spell("kane williamson"), Spell("Kane Williamson")>>,
       <<Spell("steve smith"), Spell("Steve Smith")>>,
       <<Spell("babar azam"), Spell("Babar Azam")>>,
       <<Spell("jasprit bumrah"), Spell("Jasprit Bumrah")>>,
       <<Spell("ben stokes"), Spell("Ben Stokes")>>,
       <<Spell("kagiso rabada"), Spell("Kagiso Rabada")>>,
       <<Spell("rashid khan"), Spell("Rashid Khan")>>
    >>

\* key in d, and d[key], for a dictionary written as a sequence of pairs.
HasKey(d, key) == \E i \in 1..Len(d) : d[i][1] = key

Lookup(d, key) == d[CHOOSE i \in 1..Len(d) : d[i][1] = key][2]

\* re.search(r'what are (.*?) - statistics', player_name.lower()): the text
\* between the first "what are " and the first " - statistics" after it.
special_format(s) ==
    LET low == Lower(s)
        a   == Find(low, Spell("what are "), 1)
        b   == IF a = 0 THEN 0 ELSE Find(low, Spell(" - statistics"), a + Len(Spell("what are ")))
    IN  IF a = 0 \/ b = 0 THEN s
        ELSE SubSeq(low, a + Len(Spell("what are ")), b - 1)

\* The partial-match loop: the first misspelling of at least 4 characters
\* that occurs in the name is replaced; 0 when none occurs.
PartialMatch(n) ==
    IF \E i \in 1..Len(name_corrections) :
          Contains(n, name_corrections[i][1]) /\ Len(name_corrections[i][1]) >= 4
    THEN CHOOSE i \in 1..Len(name_corrections) :
            /\ Contains(n, name_corrections[i][1]) /\ Len(name_corrections[i][1]) >= 4
            /\ \A j \in 1..(i - 1) :
                  ~(Contains(n, name_corrections[j][1]) /\ Len(name_corrections[j][1]) >= 4)
    ELSE 0

\* normalize_player_name
normalize_player_name(player_name) ==
    IF player_name = <<>> THEN <<>>
    ELSE
    LET n == Lower(Join(Split(special_format(player_name))))
        k == PartialMatch(n)
    IN  IF HasKey(canonical_names, n) THEN Lookup(canonical_names, n)
        ELSE IF HasKey(name_corrections, n)
        THEN LET corrected_name == Lookup(name_corrections, n)
             IN  IF HasKey(canonical_names, corrected_name)
                 THEN Lookup(canonical_names, corrected_name)
                 ELSE corrected_name
        ELSE IF k # 0
        THEN LET corrected_name == Replace(n, name_corrections[k][1], name_corrections[k][2])
             IN  IF HasKey(canonical_names, corrected_name)
                 THEN Lookup(canonical_names, corrected_name)
                 ELSE corrected_name
        ELSE Join([i \in 1..Len(Split(n)) |-> Capitalize(Split(n)[i])])

NoNameCall == [op |-> "none", input |-> <<>>, output |-> <<>>]

\* normalize_player_name(player_name) is called.
NormalizeName(player_name) ==
    /\ nameCall' = [op |-> "normalize_player_name", input |-> player_name,
                    output |-> normalize_player_name(player_name)]
    /\ UNCHANGED <<extVars, coreVars, roster, recCache, lastRec, lastPitch, lastScore, compareCache,
                   lastCompare, routeVars>>

\* The names the function is run on: one or two words, as typed in lower
\* case, capitalised, with spaces around and between them, and inside the
\* "what are X - statistics" format; and the empty name.
NameWords ==
    {"virat", "kohli", "kolhi", "rohit", "sharma", "dhoni", "ms", "khan", "rashid", "king"}

NamePhrases ==
    {Spell(w) : w \in NameWords}
        \cup {Spell(a) \o <<" ">> \o Spell(b) : a, b \in NameWords}

NameInputs ==
    {<<>>}
        \cup NamePhrases
        \cup {Join([i \in 1..Len(Split(n)) |-> Capitalize(Split(n)[i])]) : n \in NamePhrases}
        \cup {<<" ">> \o Spell(w) \o <<" ", " ">> \o Spell("kohli") \o <<" ">> : w \in NameWords}
        \cup {Spell("what are ") \o Spell(w) \o Spell(" - statistics") : w \in NameWords}

\* The corrected name get_player_stats works with, for each of the queries.
RouterNames == {"virat kohli"}

NormalizedQueries ==
    [q \in Queries \cup RouterNames |->
        CHOOSE name \in {"Virat Kohli", "virat kohli", "virat kolhi", "Virat Kolhi"} :
            Spell(name) = normalize_player_name(Spell(q))]

corrected_name_of(q) == lookup.names[q]

\* CricAPI bodies of the players search and of playerStats: data is the list
\* of players found, or the stats object (empty list for an empty object).
ApiPlayerBodies ==
    {[shape |-> "success", matches |-> <<"data">>],
     [shape |-> "success", matches |-> <<>>],
     [shape |-> "array", matches |-> <<>>]}

\* api.search_players: data of a success response, else [].
api_search_players(r) ==
    IF r.raised THEN [raised |-> TRUE, value |-> <<>>]
    ELSE IF r.value.shape = "success"
    THEN [raised |-> FALSE, value |-> r.value.matches]
    ELSE [raised |-> FALSE, value |-> <<>>]

\* api.get_player_stats: data of a success response, else {}.
api_get_player_stats(r) ==
    IF r.raised THEN [raised |-> TRUE, value |-> <<>>]
    ELSE IF r.value.shape = "success"
    THEN [raised |-> FALSE, value |-> r.value.matches]
    ELSE [raised |-> FALSE, value |-> <<>>]

\* The lists random.uniform can make of recent_form / recent_wickets.
RandomDraws == {"draw1", "draw2"}

\* _convert_player_stats: every field from the API stats, recent_form and
\* recent_wickets drawn at random; no source, current_form or last_updated.
convert_player_stats(player_name, draw) ==
    PlayerRec("app", 1, "CricAPI", draw, draw, "absent", player_name, -1, "")

\* _convert_cricsheet_player_stats: computes the historical fields from the
\* raw counters (runs, innings, wickets, ...).  A record already in
\* application format has no such counters: its averages come out 0, its
\* role Unknown and its recent lists five zeros.  The record of the
\* fallback table has a runs key (and no wickets, no innings): its averages
\* come out 0 too but its role Batsman ("table_runs").
convert_cricsheet_player_stats(p) ==
    IF p.shape = "raw"
    THEN PlayerRec("app", p.matches_played, "Cricsheet", "Cricsheet", "Cricsheet",
                   "Cricsheet", p.name, -1, "")
    ELSE PlayerRec("app", p.matches_played, IF p.hist = "fallback" THEN "table_runs" ELSE "zeros",
                   "zeros", "zeros", "Cricsheet", p.name, -1, "")

\* _get_fallback_player_stats: the table's record of the player.
get_fallback_player_stats(player_name) ==
    PlayerRec("app", 1, "fallback", "fallback", "absent", "Cricsheet", player_name, -1, "")

\* cricsheet_parser.CACHE_EXPIRY["match"] and the adapter's 24 hours.
CRICSHEET_MATCH_EXPIRY == 7 * 24 * 60 * 60

PLAYER_FILE_EXPIRY == 24 * 60 * 60

\* What generating fresh archive statistics can do.
CsGenOutcomes == {"raises", "nomatches", "stats"}

\* cricsheet.get_player_stats: the file if younger than 7 days, else fresh
\* statistics, written to the same file.
cricsheet_get_player_stats(file, player_name, force_refresh, t, gen) ==
    IF file.present /\ ~force_refresh /\ (t - file.mtime) < CRICSHEET_MATCH_EXPIRY
    THEN [raised |-> FALSE, value |-> file.data, file |-> file]
    ELSE IF gen = "raises"
    THEN [raised |-> TRUE, value |-> NoPlayer, file |-> file]
    ELSE LET rec == PlayerRec("raw", IF gen = "stats" THEN 1 ELSE 0, "raw", "raw", "raw",
                              "Cricsheet", player_name, t, "")
         IN  [raised |-> FALSE, value |-> rec,
              file |-> [present |-> TRUE, data |-> rec, mtime |-> t]]

\* The real-time lookup: api.search_players, then api.get_player_stats of the
\* first player found, converted.  An exception of either is caught by the
\* adapter.  fetched: a request went to the network.
real_time_stats(apiC, player_name, t, oSearch, oStats, draw) ==
    LET rs == api_make_api_request(apiC["players"], oSearch, FALSE, "players", t)
        players == api_search_players(rs)
        c1 == [apiC EXCEPT !["players"] = rs.cache]
        rt == api_make_api_request(apiC["playerStats"], oStats, FALSE, "playerStats", t)
        stats == api_get_player_stats(rt)
        c2 == [c1 EXCEPT !["playerStats"] = rt.cache]
    IN  IF players.raised \/ players.value = <<>>
        THEN [data |-> NoPlayer, cache |-> c1, fetched |-> rs.fetched]
        ELSE IF stats.raised \/ stats.value = <<>>
        THEN [data |-> NoPlayer, cache |-> c2, fetched |-> rs.fetched \/ rt.fetched]
        ELSE [data |-> convert_player_stats(player_name, draw), cache |-> c2,
              fetched |-> rs.fetched \/ rt.fetched]

\* A merge that kept the real-time record and took the recent lists from
\* the archive.
enhance_reversed(player_data, cricbuzz_data) ==
    [cricbuzz_data EXCEPT !.recent_form = player_data.recent_form,
                          !.recent_wickets = player_data.recent_wickets]

\* for field in real_time_fields: player_data[field] = cricbuzz_data[field]
\* (_convert_player_stats sets recent_form and recent_wickets, never
\* current_form).
enhance(player_data, cricbuzz_data) ==
    [player_data EXCEPT !.recent_form = cricbuzz_data.recent_form,
                        !.recent_wickets = cricbuzz_data.recent_wickets]

NoRealTime == [data |-> NoPlayer, cache |-> <<>>, fetched |-> FALSE]

\* get_player_stats(player_name, force_refresh) at time t.
get_player_stats(file, apiC, player_name, force_refresh, t, c, gen, oSearch, oStats, draw) ==
    LET corrected_name == corrected_name_of(player_name)
        rt == IF c.api
              THEN real_time_stats(apiC, corrected_name, t, oSearch, oStats, draw)
              ELSE [NoRealTime EXCEPT !.cache = apiC]
    IN  IF file.present /\ ~force_refresh /\ (t - file.mtime) < PLAYER_FILE_EXPIRY
        THEN LET cached_data == IF rt.data.shape = "none" THEN file.data
                                ELSE enhance(file.data, rt.data)
             IN  [path |-> "cached", value |-> cached_data,
                  file |-> IF rt.data.shape = "none" THEN file
                           ELSE [present |-> TRUE, data |-> cached_data, mtime |-> t],
                  apiCache |-> rt.cache, apiCalled |-> c.api, fetched |-> rt.fetched,
                  archive |-> NoPlayer, realtime |-> rt.data]
        ELSE LET cs == IF c.cricsheet
                       THEN cricsheet_get_player_stats(file, corrected_name,
                                                       force_refresh, t, gen)
                       ELSE [raised |-> FALSE, value |-> NoPlayer, file |-> file]
                 fromCs == IF ~cs.raised /\ cs.value.shape # "none"
                              /\ cs.value.matches_played > 0
                           THEN convert_cricsheet_player_stats(cs.value)
                           ELSE NoPlayer
                 merged == IF rt.data.shape = "none" THEN fromCs
                           ELSE IF fromCs.shape # "none" THEN enhance(fromCs, rt.data)
                           ELSE rt.data
                 player_data == IF merged.shape = "none"
                                THEN get_fallback_player_stats(corrected_name)
                                ELSE merged
                 saved == [player_data EXCEPT
                              !.last_updated = t,
                              !.name = corrected_name,
                              !.original_query =
                                  IF player_name # corrected_name THEN player_name ELSE @]
             IN  [path |-> "fresh", value |-> saved,
                  file |-> [present |-> TRUE, data |-> saved, mtime |-> t],
                  apiCache |-> rt.cache, apiCalled |-> c.api, fetched |-> rt.fetched,
                  archive |-> IF cs.raised THEN NoPlayer ELSE cs.value,
                  realtime |-> rt.data]

(***************************************************************************)
(* get_player_stats as a step.                                             *)
(***************************************************************************)
\* repeat: the call came less than the file's expiry after a call with the same
\* arguments and did not force a refresh; identical: it returned what that
\* call had returned.
NoPlayerCall ==
    [op |-> "none", query |-> "", force |-> FALSE, path |-> "none", value |-> NoPlayer,
     at |-> 0, apiCalled |-> FALSE, fetched |-> FALSE, archive |-> NoPlayer,
     realtime |-> NoPlayer, repeat |-> FALSE, identical |-> FALSE]

PlayerStats(q, force_refresh, gen, oSearch, oStats, draw) ==
    \E r \in {get_player_stats(playerFile, apiCache, q, force_refresh, now, cfg,
                                gen, oSearch, oStats, draw)} :
        /\ playerFile' = r.file
        /\ apiCache' = r.apiCache
        /\ lastPlayer' = [op |-> "get_player_stats", query |-> q, force |-> force_refresh,
                          path |-> r.path, value |-> r.value, at |-> now,
                          apiCalled |-> r.apiCalled, fetched |-> r.fetched,
                          archive |-> r.archive, realtime |-> r.realtime,
                          repeat |-> /\ lastPlayer.op = "get_player_stats"
                                     /\ lastPlayer.query = q
                                     /\ ~lastPlayer.force /\ ~force_refresh
                                     /\ (now - lastPlayer.at) < PLAYER_FILE_EXPIRY,
                          identical |-> r.value = lastPlayer.value]
        /\ UNCHANGED <<now, cbCache, scraperCache, lastCall, cfg, lookup, libVars, lastAgg, chatVars>>

\* A step of the player clock: past the 6 hours of the playerStats cache,
\* within the 24 hours of the player file; two steps are past both.
HalfDay == 12 * 60 * 60

MaxPlayerTicks == 2     \* the player clock stops after this many steps

PlayerTime ==
    /\ now < MaxPlayerTicks * HalfDay
    /\ now' = now + HalfDay
    /\ UNCHANGED <<cbCache, apiCache, scraperCache, lastCall, cfg, lookup, libVars, lastAgg,
                   playerVars, chatVars>>

(***************************************************************************)
(* ai_manager.py, openai_assistant.py, gemini_assistant.py, assistant.py:  *)
(* the chat entry points.                                                  *)
(***************************************************************************)
\* Texts are "text" (a non-empty string), "empty" ("") or "none" (None).
Models == {"gemini", "openai", "rule_based"}

\* assistant.generate_response: a non-empty string, or an exception from one
\* of its handlers.
RuleOutcomes == {"text", "raises"}

\* client.chat.completions.create: raises, no choices, or a choice whose
\* message.content is a string, "" or None.
CompletionOutcomes == {"raises", "nochoices", "text", "empty", "none"}

\* enrich_query_with_context: the context, or an exception.
ContextOutcomes == {"ok", "raises"}

\* generate_openai_response: the content of the first choice as it is.
generate_openai_response(llm) ==
    IF llm \in {"raises", "nochoices"} THEN "text" ELSE llm

\* Who wrote the string generate_openai_response returns: the model ("llm"),
\* or one of the function's own fixed messages ("apology") when the call
\* raised or the completion had no choices.
openai_response_origin(llm) ==
    IF llm \in {"raises", "nochoices"} THEN "apology" ELSE "llm"

\* openai_assistant.process_cricket_query.  by: who wrote the answer; cause:
\* what went wrong on the way ("unavailable", "api_failure" or "none").
openai_process_cricket_query(openai_available, ctx, llm, rule) ==
    IF ~openai_available \/ ctx = "raises"
    THEN [raised |-> rule = "raises", value |-> IF rule = "raises" THEN "none" ELSE "text",
          by |-> IF rule = "raises" THEN "none" ELSE "rule_based",
          cause |-> IF ~openai_available THEN "unavailable" ELSE "none"]
    ELSE [raised |-> FALSE, value |-> generate_openai_response(llm),
          by |-> openai_response_origin(llm),
          cause |-> IF llm = "raises" THEN "api_failure" ELSE "none"]

NoReply ==
    [op |-> "none", response |-> "none", model_used |-> "none", success |-> FALSE,
     fallback |-> FALSE, by |-> "none", cause |-> "none"]

Reply(response, model_used, success, fallback, by, cause) ==
    [op |-> "process_query", response |-> response, model_used |-> model_used,
     success |-> success, fallback |-> fallback, by |-> by, cause |-> cause]

\* AIManager.process_query for a model other than a running Gemini: the
\* response of the model as it is; on an exception the rule-based response,
\* and when that raises too the error message.
process_query(model, available, openai_available, ctx, llm, rule) ==
    LET m == IF model \in available THEN model ELSE "rule_based"
        o == openai_process_cricket_query(openai_available, ctx, llm, rule)
        cause == IF m # model THEN "unavailable"
                 ELSE IF m = "openai" THEN o.cause ELSE "none"
    IN  IF m = "openai" /\ ~o.raised
        THEN Reply(o.value, m, TRUE, FALSE, o.by, cause)
        ELSE IF rule = "text"
        THEN Reply("text", "rule_based", TRUE, m # "rule_based", "rule_based", cause)
        ELSE Reply("text", m, FALSE, FALSE, "apology", cause)

\* gemini_assistant.process_cricket_query
TOTAL_TIMEOUT == 15

ChatStep == 5           \* seconds that pass in one step of the chat clock
MaxChatClock == 30      \* the chat clock stops here

ChatQueries == {"Virat Kohli stats", "how is Virat Kohli batting", "show live matches"}

\* generate_quick_response: the query has one of the player keywords.
is_player_query(q) == q \in {"Virat Kohli stats", "how is Virat Kohli batting"}

\* extract_player_name asks the LLM (extract_player_name_with_nlp) when the
\* query has "stats" or "statistics" in it, or when none of its patterns
\* matches; "how is X batting" matches a pattern.
asks_llm_for_name(q) == q = "Virat Kohli stats"

\* The template generate_quick_response answers with when no LLM is asked.
quick_template(q) ==
    IF is_player_query(q) THEN "quick_player"
    ELSE IF q = "show live matches" THEN "quick_match"
    ELSE "quick_general"

\* model.generate_content: raises, a response without text, a text, an
\* empty text, or a text with one of the lack_of_info_phrases in it.
GenerateOutcomes == {"raises", "notext", "text", "empty", "lackinfo"}

\* generate_gemini_response: the text of the response, or one of the
\* function's own fixed messages when the call raised or gave no text.
generate_gemini_response(gen) ==
    IF gen \in {"raises", "notext"}
    THEN [value |-> "text", by |-> "apology", lack |-> FALSE]
    ELSE [value |-> IF gen = "empty" THEN "empty" ELSE "text", by |-> "llm",
          lack |-> gen = "lackinfo"]

\* What the worker does before step 5: it goes on to the generation
\* ("none"), stops at a time check with a quick response ("quick"), answers
\* a player query from the fetched data ("formatted"), or raises.
EarlyOutcomes == {"none", "quick", "formatted", "raises"}

WorkerResult(final_response, by, cause) ==
    [final_response |-> final_response, by |-> by, cause |-> cause]

\* The except branch of process_with_timeout: one more generate_content
\* without context, and then the rule-based generate_response; when that
\* raises too the thread dies with final_response[0] still None.
direct_approach(gemini_available, gen3, rule, cause) ==
    IF gemini_available /\ gen3 \in {"text", "empty", "lackinfo"}
    THEN WorkerResult(IF gen3 = "empty" THEN "empty" ELSE "text", "llm", cause)
    ELSE IF rule = "text" THEN WorkerResult("text", "rule_based", cause)
    ELSE WorkerResult("none", "none", cause)

\* process_cricket_query.process_with_timeout: what the worker leaves in
\* final_response[0].  web: the scraper is tried and returns data.
process_with_timeout(gemini_available, early, gen1, web, gen2, gen3, rule) ==
    LET r1 == generate_gemini_response(gen1)
        r2 == generate_gemini_response(gen2)
        c1 == IF gen1 = "raises" THEN "api_failure"
              ELSE IF r1.lack THEN "lack_info" ELSE "none"
    IN  IF ~gemini_available
        THEN IF rule = "text" THEN WorkerResult("text", "rule_based", "unavailable")
             ELSE direct_approach(FALSE, gen3, rule, "unavailable")
        ELSE IF early = "quick" THEN WorkerResult("text", "quick", "none")
        ELSE IF early = "formatted" THEN WorkerResult("text", "data", "none")
        ELSE IF early = "raises" THEN direct_approach(TRUE, gen3, rule, "none")
        ELSE IF ~r1.lack THEN WorkerResult(r1.value, r1.by, c1)
        ELSE IF web /\ r2.value = "text" THEN WorkerResult("text", r2.by, c1)
        ELSE IF gen2 = "raises" THEN direct_approach(TRUE, gen3, rule, c1)
        ELSE IF gen2 = "notext" THEN WorkerResult(r1.value, r1.by, c1)
        ELSE WorkerResult(IF gen2 = "empty" THEN "empty" ELSE "text", "llm", c1)

\* Everything the worker can leave behind.
WorkerResults(gemini_available) ==
    {process_with_timeout(gemini_available, early, gen1, web, gen2, gen3, rule) :
        early \in EarlyOutcomes, gen1 \in GenerateOutcomes, web \in BOOLEAN,
        gen2 \in GenerateOutcomes, gen3 \in GenerateOutcomes, rule \in RuleOutcomes}

IdleChat ==
    [phase |-> "idle", query |-> "", gemini |-> FALSE, clock |-> 0, alive |-> FALSE,
     final_response |-> "none", by |-> "none", cause |-> "none", reply |-> "none",
     returnedAt |-> 0]

\* process_cricket_query(query) is called: the worker thread starts and the
\* caller joins it with the timeout.
ChatStart(q, g) ==
    /\ chat.phase \in {"idle", "returned"}
    /\ chat' = [phase |-> "waiting", query |-> q, gemini |-> g, clock |-> 0,
                alive |-> TRUE, final_response |-> "none", by |-> "none",
                cause |-> "none", reply |-> "none", returnedAt |-> 0]
    /\ lastReply' = NoReply
    /\ UNCHANGED <<now, cbCache, apiCache, scraperCache, lastCall, cfg, lookup, libVars, lastAgg, playerVars>>

\* Time passes while the caller is blocked in join (no longer than the
\* timeout), while it is blocked in the LLM call of the quick response, or
\* while the worker runs on after the caller returned.
ChatTime ==
    /\ \/ chat.phase = "waiting" /\ chat.alive /\ chat.clock < TOTAL_TIMEOUT
       \/ chat.phase = "extracting"
       \/ chat.phase = "returned" /\ chat.alive
    /\ chat.clock + ChatStep <= MaxChatClock
    /\ chat' = [chat EXCEPT !.clock = @ + ChatStep]
    /\ UNCHANGED <<now, cbCache, apiCache, scraperCache, lastCall, cfg, lookup, libVars, lastAgg,
                   playerVars, lastReply>>

\* The worker ends: it stored a response in final_response[0], or stored an
\* empty one, or died of an exception.
WorkerEnds(res) ==
    /\ chat.phase \in {"waiting", "extracting", "returned"}
    /\ chat.alive
    /\ res \in WorkerResults(chat.gemini)
    /\ chat' = [chat EXCEPT !.alive = FALSE, !.final_response = res.final_response,
                            !.by = res.by, !.cause = res.cause]
    /\ UNCHANGED <<now, cbCache, apiCache, scraperCache, lastCall, cfg, lookup, libVars, lastAgg,
                   playerVars, lastReply>>

\* join returns: the worker ended or the timeout passed.  The worker's
\* response if it ended with one, else generate_quick_response(query), which
\* for a player query first extracts the player's name.
JoinReturns ==
    /\ chat.phase = "waiting"
    /\ ~chat.alive \/ chat.clock >= TOTAL_TIMEOUT
    /\ IF ~chat.alive /\ chat.final_response = "text"
       THEN /\ chat' = [chat EXCEPT !.phase = "returned", !.reply = "worker",
                                    !.returnedAt = chat.clock]
            /\ lastReply' = Reply("text", "gemini", TRUE, FALSE, chat.by, chat.cause)
       ELSE IF chat.gemini /\ asks_llm_for_name(chat.query)
       THEN /\ chat' = [chat EXCEPT !.phase = "extracting"]
            /\ UNCHANGED lastReply
       ELSE /\ chat' = [chat EXCEPT !.phase = "returned", !.reply = quick_template(chat.query),
                                    !.returnedAt = chat.clock]
            /\ lastReply' = Reply("text", "gemini", TRUE, FALSE, "quick", chat.cause)
    /\ UNCHANGED <<now, cbCache, apiCache, scraperCache, lastCall, cfg, lookup, libVars, lastAgg, playerVars>>

\* model.generate_content of extract_player_name_with_nlp returns or raises:
\* the quick player response when it named a player, else the template.
ExtractReturns(named) ==
    /\ chat.phase = "extracting"
    /\ chat' = [chat EXCEPT !.phase = "returned",
                            !.reply = IF named THEN "quick_player" ELSE "quick_general",
                            !.returnedAt = chat.clock]
    /\ lastReply' = Reply("text", "gemini", TRUE, FALSE, "quick", chat.cause)
    /\ UNCHANGED <<now, cbCache, apiCache, scraperCache, lastCall, cfg, lookup, libVars, lastAgg, playerVars>>

\* AIManager.process_query with OpenAI, the rule-based model or a model that
\* is not available.
ProcessQuery(model, available, openai_available, ctx, llm, rule) ==
    /\ chat.phase \in {"idle", "returned"}
    /\ model = "gemini" => "gemini" \notin available
    /\ lastReply' = process_query(model, available, openai_available, ctx, llm, rule)
    /\ UNCHANGED <<now, cbCache, apiCache, scraperCache, lastCall, cfg, lookup, libVars, lastAgg,
                   playerVars, chat>>

(***************************************************************************)
(* fantasy_recommendations.py: differential, captain and comparison picks. *)
(***************************************************************************)
\* Scores are in tenths (round(score, 1)), prices in tenths of a credit.
\* A value of a player dict: the key is missing, holds None, or holds a
\* number, a string or a list.
NoField == [k |-> "absent", v |-> 0]

NoneField == [k |-> "none", v |-> 0]

Num(v) == [k |-> "num", v |-> v]

NoRole == [k |-> "absent", v |-> ""]

NoForm == [k |-> "absent", v |-> <<>>]

\* dict.get(key, default) for a number.
Get(f, default) == IF f.k = "absent" THEN Num(default) ELSE f

RECURSIVE Sum(_)
Sum(xs) == IF xs = <<>> THEN 0 ELSE Head(xs) + Sum(Tail(xs))

\* The form part the three scores share: avg_score = sum/len of recent_form
\* (0 for an empty list or None), nothing when the key is missing.
form_bonus(player, excellent, good, poor) ==
    LET f == player.recent_form
        n == Len(f.v)
    IN  IF f.k = "absent" THEN 0
        ELSE IF f.k = "list" /\ n > 0 /\ Sum(f.v) > 50 * n THEN excellent
        ELSE IF f.k = "list" /\ n > 0 /\ Sum(f.v) > 30 * n THEN good
        ELSE IF f.k # "list" \/ n = 0 \/ Sum(f.v) < 15 * n THEN poor
        ELSE 0

\* The role part: 'all-rounder' in role.lower().  The bowler and batsman
\* branches ask pitch_conditions for 'bowler_friendly' and
\* 'batsman_friendly', keys no pitch dict of the program has
\* (get_pitch_conditions gives batting_friendly, pace_friendly and
\* spin_friendly, or {}), so they add nothing.
role_bonus(player, all_rounder) ==
    IF player.role.k = "str" /\ player.role.v = "All-rounder" THEN all_rounder ELSE 0

\* random.uniform(-0.5, 1.5) and random.uniform(-0.2, 0.2) for the i-th
\* player scored: the draws of a generator started from seed.
random_matchup(seed, i) == ((seed * 7 + i * 11) % 21) - 5

random_jitter(seed, i) == ((seed * 3 + i * 2) % 5) - 2

Seeds == 1..2

\* _calculate_differential_score (match has two teams).  A None role,
\* ownership or price raises (None.lower(), None < 10).
calculate_differential_score(player, seed, i) ==
    LET ownership == Get(player.ownership, 50)
        price == Get(player.price, 90)
    IN  [raised |-> player.role.k = "none" \/ ownership.k = "none" \/ price.k = "none",
         score |-> 50 + form_bonus(player, 20, 10, -10) + role_bonus(player, 15)
                     + (IF ownership.v < 10 THEN 20 ELSE IF ownership.v < 25 THEN 10 ELSE 0)
                     + (IF price.v < 70 THEN 10 ELSE 0)
                     + random_matchup(seed, i) + random_jitter(seed, i)]

\* list.sort(key=..., reverse=True): the positions of scores from the
\* highest to the lowest score, equal scores in their original order.
SortedDescending(scores) ==
    LET n == Len(scores)
        before(i, j) == scores[i] > scores[j] \/ (scores[i] = scores[j] /\ i < j)
        position(i) == 1 + Cardinality({j \in 1..n : before(j, i)})
    IN  <<>> \o [p \in 1..n |-> CHOOSE i \in 1..n : position(i) = p]

\* seq[:n]
Take(seq, n) == SubSeq(seq, 1, IF Len(seq) < n THEN Len(seq) ELSE n)

\* Each entry also remembers the players and the random draws its list was
\* computed from (pool, seed); the program keeps data and timestamp only.
NoRecEntry == [data |-> <<>>, cached |-> FALSE, timestamp |-> 0, pool |-> <<>>, seed |-> 0]

EmptyRecCache == [differential_picks |-> NoRecEntry, captain_picks |-> NoRecEntry]

RecEntry(data, t, pool, seed) ==
    [data |-> data, cached |-> TRUE, timestamp |-> t, pool |-> pool, seed |-> seed]

\* What a recommendation call gives: the value returned, the cache after
\* it, whether the value was freshly computed, whether the call raised, and
\* the players and draws the value was computed from.
RecResult(value, cache, fresh, raised, pool, seed) ==
    [value |-> value, cache |-> cache, fresh |-> fresh, raised |-> raised,
     pool |-> pool, seed |-> seed]

REC_CACHE_EXPIRY == 60 * 60

\* What get_live_cricket_matches() / get_upcoming_matches() give the
\* recommendation: no match, a first match whose teams string does not
\* split in two, or a first match of two teams.
MatchOutcomes == {"none", "noteams", "two_teams"}

\* The body of get_differential_picks: [value, cache, fresh, raised].  pool
\* is team1_players + team2_players; players owned by more than
\* max_ownership are skipped, those scoring above min_score are picked, and
\* the first top of them by score are returned.
differential_picks_with(cache, pool, match, t, seed, max_ownership, min_score, top) ==
    LET c == cache.differential_picks
        eligible == {i \in 1..Len(pool) : ~(Get(pool[i].ownership, 0).v > max_ownership)}
        scored == <<>> \o [i \in 1..Len(pool) |->
                               calculate_differential_score(pool[i], seed, i)]
        chosen == {i \in eligible : scored[i].score > min_score}
        \* the picks in pool order, each with its score
        listed == SelectSeq([i \in 1..Len(pool) |->
                               [name |-> pool[i].name, ownership |-> pool[i].ownership,
                                differential_score |-> scored[i].score, chosen |-> i \in chosen]],
                            LAMBDA x : x.chosen)
        order == SortedDescending(<<>> \o [i \in 1..Len(listed) |->
                                               listed[i].differential_score])
        differential_picks == Take([p \in 1..Len(listed) |-> listed[order[p]]], top)
        raised == \E i \in 1..Len(pool) :
                     \/ pool[i].ownership.k = "none"
                     \/ i \in eligible /\ scored[i].raised
    IN  IF c.cached /\ (t - c.timestamp) < REC_CACHE_EXPIRY
        THEN RecResult(c.data, cache, FALSE, FALSE, c.pool, c.seed)
        ELSE IF match # "two_teams"
        THEN RecResult(<<>>, cache, TRUE, FALSE, <<>>, seed)
        ELSE IF raised
        THEN RecResult(<<>>, cache, TRUE, TRUE, pool, seed)
        ELSE RecResult(differential_picks,
                       [cache EXCEPT !.differential_picks =
                           RecEntry(differential_picks, t, pool, seed)],
                       TRUE, FALSE, pool, seed)

\* get_differential_picks without the ownership test.
get_differential_picks_any_owner(cache, pool, match, t, seed) ==
    differential_picks_with(cache, pool, match, t, seed, 100, 70, 5)

\* get_differential_picks without the score threshold.
get_differential_picks_any_score(cache, pool, match, t, seed) ==
    differential_picks_with(cache, pool, match, t, seed, 50, 0, 5)

\* get_differential_picks: ownership above 50 is skipped, a score above 7.0
\* is picked, the top 5 are returned.
get_differential_picks(cache, pool, match, t, seed) ==
    differential_picks_with(cache, pool, match, t, seed, 50, 70, 5)

\* _calculate_captain_score.  The consistency bonus compares the standard
\* deviation of recent_form with 10 and 20: std_dev < d exactly when
\* sum((n*x - sum)^2) < d^2 * n^3.
calculate_captain_score(player, seed, i) ==
    LET fpa == Get(player.fantasy_points_avg, 0)
        f == player.recent_form
        n == Len(f.v)
        spread == Sum([j \in 1..n |-> (n * f.v[j] - Sum(f.v)) * (n * f.v[j] - Sum(f.v))])
    IN  [raised |-> player.role.k = "none" \/ fpa.k = "none",
         score |-> 50 + form_bonus(player, 30, 15, -20) + role_bonus(player, 15)
                     + (IF fpa.v > 80 THEN 25 ELSE IF fpa.v > 60 THEN 15 ELSE 0)
                     + (IF f.k = "list" /\ n > 0
                        THEN IF spread < 100 * n * n * n THEN 15
                             ELSE IF spread < 400 * n * n * n THEN 5 ELSE 0
                        ELSE 0)
                     + random_jitter(seed, i)]

\* random.uniform(-0.1, 0.1) of the comparison score.
random_nudge(seed, i) == ((seed + i) % 3) - 1

\* _calculate_player_score, the comparison score.  A None role or
\* fantasy_points_avg raises (None.lower(), None > 80).
calculate_player_score(player, seed, i) ==
    LET fpa == Get(player.fantasy_points_avg, 0)
    IN  [raised |-> player.role.k = "none" \/ fpa.k = "none",
         score |-> 50 + form_bonus(player, 30, 15, -10) + role_bonus(player, 10)
                     + (IF fpa.v > 80 THEN 20 ELSE IF fpa.v > 60 THEN 10 ELSE 0)
                     + random_nudge(seed, i)]

\* The body of get_captain_picks: the first six players by captain score,
\* the first captains of them recommended as Captain and the others as
\* Vice-Captain.
captain_picks_with(cache, pool, match, t, seed, captains) ==
    LET c == cache.captain_picks
        scored == <<>> \o [i \in 1..Len(pool) |-> calculate_captain_score(pool[i], seed, i)]
        order == SortedDescending(<<>> \o [i \in 1..Len(pool) |-> scored[i].score])
        all_players == [p \in 1..Len(pool) |-> order[p]]
        top == Take(all_players, 6)
        captain_picks ==
            [p \in 1..Len(top) |->
                [name |-> pool[top[p]].name, captain_score |-> scored[top[p]].score,
                 recommendation |-> IF p - 1 < captains THEN "Captain" ELSE "Vice-Captain"]]
    IN  IF c.cached /\ (t - c.timestamp) < REC_CACHE_EXPIRY
        THEN RecResult(c.data, cache, FALSE, FALSE, c.pool, c.seed)
        ELSE IF match # "two_teams"
        THEN RecResult(<<>>, cache, TRUE, FALSE, <<>>, seed)
        ELSE IF \E i \in 1..Len(pool) : scored[i].raised
        THEN RecResult(<<>>, cache, TRUE, TRUE, pool, seed)
        ELSE RecResult(captain_picks,
                       [cache EXCEPT !.captain_picks = RecEntry(captain_picks, t, pool, seed)],
                       TRUE, FALSE, pool, seed)

\* get_captain_picks with two Captain recommendations.
get_captain_picks_two_captains(cache, pool, match, t, seed) ==
    captain_picks_with(cache, pool, match, t, seed, 2)

\* get_captain_picks: 'Captain' if i < 3 else 'Vice-Captain'.
get_captain_picks(cache, pool, match, t, seed) ==
    captain_picks_with(cache, pool, match, t, seed, 3)

NoRec ==
    [op |-> "none", value |-> <<>>, pool |-> <<>>, match |-> "none", fresh |-> FALSE,
     raised |-> FALSE, seed |-> 0]

\* get_captain_picks() is called.
CaptainPicks(match, seed) ==
    /\ \E r \in {get_captain_picks(recCache, roster, match, now, seed)} :
          /\ recCache' = r.cache
          /\ lastRec' = [op |-> "get_captain_picks", value |-> r.value, pool |-> r.pool,
                          match |-> match, fresh |-> r.fresh, raised |-> r.raised,
                          seed |-> r.seed]
    /\ UNCHANGED <<extVars, coreVars, nameCall, roster, lastPitch, lastScore, compareCache,
                   lastCompare, routeVars>>

\* get_differential_picks() is called.
DifferentialPicks(match, seed) ==
    /\ \E r \in {get_differential_picks(recCache, roster, match, now, seed)} :
          /\ recCache' = r.cache
          /\ lastRec' = [op |-> "get_differential_picks", value |-> r.value, pool |-> r.pool,
                          match |-> match, fresh |-> r.fresh, raised |-> r.raised,
                          seed |-> r.seed]
    /\ UNCHANGED <<extVars, coreVars, nameCall, roster, lastPitch, lastScore, compareCache,
                   lastCompare, routeVars>>

\* The players the recommendations are run on: a batsman owned by exactly
\* 50% whose score falls on either side of the threshold, an in-form
\* all-rounder owned by 60%, and the same all-rounder owned by few.  The
\* team lists name them in this order.
PlayerKinds == <<"fringe", "popular", "star">>

KindRank(kind) == CHOOSE r \in 1..Len(PlayerKinds) : PlayerKinds[r] = kind

PlayerOfKind(kind, name) ==
    [name |-> name,
     role |-> [k |-> "str", v |-> IF kind = "fringe" THEN "Batsman" ELSE "All-rounder"],
     recent_form |-> [k |-> "list", v |-> IF kind = "fringe" THEN <<40>> ELSE <<60, 70>>],
     ownership |-> Num(IF kind = "star" THEN 5 ELSE IF kind = "popular" THEN 60 ELSE 50),
     price |-> Num(IF kind = "fringe" THEN 90 ELSE 65),
     fantasy_points_avg |-> Num(IF kind = "fringe" THEN 50 ELSE 85)]

MaxRoster == 7          \* the most players the two teams have together

\* The data sources come to know one more player of the two teams.
AddPlayer(kind) ==
    /\ Len(roster) < MaxRoster
    /\ roster # <<>> => KindRank(roster[Len(roster)].name[1]) <= KindRank(kind)
    /\ roster' = Append(roster, PlayerOfKind(kind, <<kind, Len(roster) + 1>>))
    /\ UNCHANGED <<extVars, coreVars, nameCall, recCache, lastRec, lastPitch, lastScore, compareCache,
                   lastCompare, routeVars>>

\* Player records of which any field may be missing or hold None, and
\* recent_form may also be an empty list.
PartialRecords ==
    [name : {<<"partial", 1>>},
     role : {NoRole, [k |-> "none", v |-> ""], [k |-> "str", v |-> "All-rounder"]},
     recent_form : {NoForm, [k |-> "none", v |-> <<>>], [k |-> "list", v |-> <<>>],
                    [k |-> "list", v |-> <<60, 70>>]},
     ownership : {NoField, NoneField, Num(5)},
     price : {NoField, NoneField, Num(65)},
     fantasy_points_avg : {NoField, NoneField, Num(85)}]

NoScoreCall == [op |-> "none", player |-> PlayerOfKind("star", <<"star", 1>>),
                raised |-> FALSE, score |-> 0]

ScoreCall(op, player, r) ==
    [op |-> op, player |-> player, raised |-> r.raised, score |-> IF r.raised THEN 0 ELSE r.score]

\* _calculate_differential_score(player, pitch_conditions, match) is called.
DifferentialScore(player, seed) ==
    /\ lastScore' = ScoreCall("_calculate_differential_score", player,
                              calculate_differential_score(player, seed, 1))
    /\ UNCHANGED <<extVars, coreVars, nameCall, roster, recCache, lastRec, lastPitch, compareCache,
                   lastCompare, routeVars>>

\* _calculate_captain_score(player, pitch_conditions, match) is called.
CaptainScore(player, seed) ==
    /\ lastScore' = ScoreCall("_calculate_captain_score", player,
                              calculate_captain_score(player, seed, 1))
    /\ UNCHANGED <<extVars, coreVars, nameCall, roster, recCache, lastRec, lastPitch, compareCache,
                   lastCompare, routeVars>>

\* _calculate_player_score(player, pitch_conditions) is called.
PlayerScore(player, seed) ==
    /\ lastScore' = ScoreCall("_calculate_player_score", player,
                              calculate_player_score(player, seed, 1))
    /\ UNCHANGED <<extVars, coreVars, nameCall, roster, recCache, lastRec, lastPitch, compareCache,
                   lastCompare, routeVars>>

\* The records get_player_stats gives for the two players: the record of
\* cricket_data_reliable.PLAYER_DATA (fantasy_points_avg 82.1 and 85.3, here
\* in whole points) or a record converted from a source's answer.
RohitRecords ==
    {[name |-> "Rohit Sharma", role |-> [k |-> "str", v |-> "Batsman"],
      recent_form |-> [k |-> "list", v |-> <<76, 45, 83, 12, 65>>],
      fantasy_points_avg |-> Num(82)],
     [name |-> "Rohit Sharma", role |-> [k |-> "str", v |-> "Batsman"],
      recent_form |-> [k |-> "list", v |-> <<90, 80>>],
      fantasy_points_avg |-> Num(95)]}

KohliRecords ==
    {[name |-> "Virat Kohli", role |-> [k |-> "str", v |-> "Batsman"],
      recent_form |-> [k |-> "list", v |-> <<82, 61, 45, 77, 33>>],
      fantasy_points_avg |-> Num(85)],
     [name |-> "Virat Kohli", role |-> [k |-> "str", v |-> "Batsman"],
      recent_form |-> [k |-> "list", v |-> <<20, 10>>],
      fantasy_points_avg |-> Num(55)]}

\* A reasoning string: the template it was built from and the reasons it
\* joins; the string of the 'because' template quotes the numbers of each
\* reason, the 'slightly_favored' template quotes none.
Reasoning(template, reasons) == [template |-> template, reasons |-> reasons]

\* _generate_comparison_reasoning(better_player, worse_player, pitch).  The
\* pitch reasons ask for 'bowler_friendly' and 'batsman_friendly', which
\* no pitch dict has.
generate_comparison_reasoning(better_player, worse_player) ==
    LET bf == better_player.recent_form
        wf == worse_player.recent_form
        bp == better_player.fantasy_points_avg
        wp == worse_player.fantasy_points_avg
        \* better_avg > worse_avg, an empty or None list averaging 0
        form == /\ bf.k # "absent" /\ wf.k # "absent"
                /\ bf.k = "list" /\ Len(bf.v) > 0
                /\ IF wf.k = "list" /\ Len(wf.v) > 0
                   THEN Sum(bf.v) * Len(wf.v) > Sum(wf.v) * Len(bf.v)
                   ELSE Sum(bf.v) > 0
        points == bp.k = "num" /\ wp.k = "num" /\ bp.v > wp.v
        reasons == (IF form THEN <<"form">> ELSE <<>>) \o (IF points THEN <<"points">> ELSE <<>>)
    IN  IF reasons # <<>> THEN Reasoning("because", reasons)
        ELSE Reasoning("slightly_favored", <<>>)

\* An entry also remembers the two records it was computed from (stats);
\* the program keeps data and timestamp only.
NoComparison == [cached |-> FALSE, pick |-> "", over |-> "", reasoning |-> Reasoning("none", <<>>),
                 timestamp |-> 0, stats |-> <<>>]

NoCompareCall == [op |-> "none", fresh |-> FALSE, pick |-> "", over |-> "",
                  reasoning |-> Reasoning("none", <<>>), stats |-> <<>>]

\* compare_players(player1_name, player2_name) with the two records
\* get_player_stats gave: [value, cache].  pick and over are the two names
\* of 'Pick X over Y'.
compare_players(cache, player1_name, player2_name, player1, player2, t, seed) ==
    LET score1 == calculate_player_score(player1, seed, 1).score
        score2 == calculate_player_score(player2, seed, 2).score
        comparison ==
            IF score1 > score2
            THEN [cached |-> TRUE, pick |-> player1_name, over |-> player2_name,
                  reasoning |-> generate_comparison_reasoning(player1, player2),
                  timestamp |-> t, stats |-> <<player1, player2>>]
            ELSE [cached |-> TRUE, pick |-> player2_name, over |-> player1_name,
                  reasoning |-> generate_comparison_reasoning(player2, player1),
                  timestamp |-> t, stats |-> <<player1, player2>>]
    IN  IF cache.cached /\ (t - cache.timestamp) < REC_CACHE_EXPIRY
        THEN [value |-> cache, cache |-> cache, fresh |-> FALSE]
        ELSE [value |-> comparison, cache |-> comparison, fresh |-> TRUE]

\* handle_compare_players_query: the card always quotes both players'
\* fantasy points, price and ownership; the recommendation names the player
\* whose fantasy_points_avg is more than 10% higher, or neither.
handle_compare_players_query(player1, player2) ==
    LET p1 == player1.fantasy_points_avg.v
        p2 == player2.fantasy_points_avg.v
    IN  [pick |-> IF 10 * p1 > 11 * p2 THEN player1.name
                  ELSE IF 10 * p2 > 11 * p1 THEN player2.name
                  ELSE "",
         over |-> "",
         reasoning |-> Reasoning("card", <<"points", "price", "ownership">>)]

\* compare_players("Rohit Sharma", "Virat Kohli") is called.
ComparePlayers(player1, player2, seed) ==
    /\ \E r \in {compare_players(compareCache, "Rohit Sharma", "Virat Kohli",
                                   player1, player2, now, seed)} :
          /\ compareCache' = r.cache
          /\ lastCompare' = [op |-> "compare_players", fresh |-> r.fresh,
                              pick |-> r.value.pick, over |-> r.value.over,
                              reasoning |-> r.value.reasoning, stats |-> r.value.stats]
    /\ UNCHANGED <<extVars, coreVars, nameCall, roster, recCache, lastRec, lastPitch, lastScore, routeVars>>

\* handle_compare_players_query('difference between rohit sharma and virat
\* kohli') is called.
HandleComparePlayers(player1, player2) ==
    /\ \E r \in {handle_compare_players_query(player1, player2)} :
          lastCompare' = [op |-> "handle_compare_players_query", fresh |-> TRUE,
                           pick |-> r.pick, over |-> r.over, reasoning |-> r.reasoning,
                           stats |-> <<player1, player2>>]
    /\ UNCHANGED <<extVars, coreVars, nameCall, roster, recCache, lastRec, lastPitch, lastScore,
                   compareCache, routeVars>>

RecTick == 30 * 60

MaxRecTicks == 2        \* the recommendation clock stops after this many steps

\* Time passes between two recommendation calls.
RecTime ==
    /\ now < MaxRecTicks * RecTick
    /\ now' = now + RecTick
    /\ UNCHANGED <<cbCache, apiCache, scraperCache, lastCall, cfg, lookup, lastAgg, playerVars,
                   chatVars, libVars>>

(***************************************************************************)
(* assistant.py: generate_response and handle_player_stats_query.          *)
(***************************************************************************)
\* The alternatives of PATTERNS['greet'] and PATTERNS['thank'], and the two
\* word groups of PATTERNS['player_stats'].
greet_pattern == <<"hi", "hello", "hey", "greetings", "sup", "what's up">>

thank_pattern == <<"thanks", "thank you", "thx", "ty">>

stats_words == <<"stats", "statistics", "info", "information">>

stats_prepositions == <<"about", "for", "on">>

\* re.search of a pattern that is an alternation of literals.
SearchAny(s, pattern) == \E k \in 1..Len(pattern) : Contains(s, Chars(pattern[k]))

\* [A-Za-z ]
IsNameChar(c) ==
    c = " " \/ \E k \in 1..26 : LowerCase[k] = c \/ UpperCase[k] = c

\* The text before group 3 of PATTERNS['player_stats'] matches at i: one
\* of the words, a space, one of the prepositions, a space, and then at
\* least one character of [A-Za-z ].  Gives the position group 3 starts
\* at, 0 when there is no match at i.
StatsPrefixAt(s, i) ==
    LET heads == {Spell(stats_words[a]) \o <<" ">> \o Spell(stats_prepositions[b]) \o <<" ">> :
                     a \in 1..Len(stats_words), b \in 1..Len(stats_prepositions)}
        fits == {h \in heads : /\ StartsAt(s, h, i)
                                /\ i + Len(h) <= Len(s)
                                /\ IsNameChar(s[i + Len(h)])}
    IN  IF fits = {} THEN 0 ELSE i + Len(CHOOSE h \in fits : TRUE)

\* re.search(PATTERNS['player_stats'], s): the leftmost match; group 3 is
\* the longest run of [A-Za-z ] from where it starts.
search_player_stats(s) ==
    LET starts == {i \in 1..Len(s) : StatsPrefixAt(s, i) # 0}
        first  == CHOOSE i \in starts : \A j \in starts : i <= j
        from   == StatsPrefixAt(s, first)
        to     == CHOOSE e \in from..Len(s) :
                     /\ \A k \in from..e : IsNameChar(s[k])
                     /\ e = Len(s) \/ ~IsNameChar(s[e + 1])
    IN  IF starts = {} THEN [matched |-> FALSE, group3 |-> <<>>]
        ELSE [matched |-> TRUE, group3 |-> SubSeq(s, from, to)]

\* str.strip() of a string of letters and spaces.
Strip(s) ==
    LET inked == {i \in 1..Len(s) : s[i] # " "}
    IN  IF inked = {} THEN <<>>
        ELSE SubSeq(s, CHOOSE i \in inked : \A j \in inked : i <= j,
                       CHOOSE i \in inked : \A j \in inked : j <= i)

\* generate_response: the first of its tests that succeeds on
\* query.lower(); "later" stands for the tests after player_stats.
route_intent(query) ==
    LET low == Lower(query)
    IN  IF SearchAny(low, greet_pattern) THEN "greet"
        ELSE IF SearchAny(low, thank_pattern) THEN "thank"
        ELSE IF search_player_stats(low).matched THEN "player_stats"
        ELSE "later"

\* The queries the router is run on, and for each the intent chosen and
\* the player name handle_player_stats_query extracts.
RouterQueries ==
    {"Show me stats for Virat Kohli", "Show me stats for Rohit Sharma",
     "thanks for the info on Virat Kohli", "stats for virat kolhi",
     "info about Virat Kohli"}

RouteTable ==
    [q \in RouterQueries |->
        [intent |-> route_intent(Spell(q)),
         player_name |->
            LET name == Strip(search_player_stats(Lower(Spell(q))).group3)
            IN  IF \E w \in Queries \cup RouterNames : Spell(w) = name
                THEN CHOOSE w \in Queries \cup RouterNames : Spell(w) = name
                ELSE ""]]

\* The roles _convert_cricsheet_player_stats derives from the counters of
\* the performances cricsheet_parser._extract_player_performance draws at
\* random: runs and wickets, runs only, wickets only, or a single 0.
SimulatedRoles == {"All-rounder", "Batsman", "Bowler", "Unknown"}

\* The role of the record get_player_stats returned.  A record from the
\* file keeps the file's role; the fallback table, the archive's known
\* players and CricAPI all have Virat Kohli as a batsman of India.
role_of(r, role_in_file, sim) ==
    IF r.path = "cached" THEN role_in_file
    ELSE IF r.value.hist = "Cricsheet" THEN sim
    ELSE IF r.value.hist = "zeros" THEN "Unknown"
    ELSE "Batsman"

\* create_player_card: the name, team and role of its first line.
create_player_card(player, role) == [name |-> player.name, team |-> "India", role |-> role]

NoCard == [name |-> "", team |-> "", role |-> ""]

NoRoute == [op |-> "none", query |-> "", intent |-> "none", card |-> NoCard, path |-> "none"]

\* generate_response(query) answers a greeting or a thanks.
RouteWord(query) ==
    /\ lookup.routes[query].intent \in {"greet", "thank"}
    /\ lastRoute' = [op |-> "generate_response", query |-> query,
                     intent |-> lookup.routes[query].intent, card |-> NoCard, path |-> "none"]
    /\ UNCHANGED <<extVars, coreVars, nameCall, roster, recCache, lastRec, lastPitch, lastScore,
                   compareCache, lastCompare, fileRole>>

\* generate_response(query) calls handle_player_stats_query, which calls
\* get_player_stats(match.group(3).strip()) and makes the card.
RoutePlayerStats(query, gen, oSearch, oStats, draw, sim) ==
    /\ lookup.routes[query].intent = "player_stats"
    /\ \E r \in {get_player_stats(playerFile, apiCache, lookup.routes[query].player_name, FALSE,
                                    now, cfg, gen, oSearch, oStats, draw)} :
        \E role \in {role_of(r, fileRole, sim)} :
          /\ playerFile' = r.file
          /\ apiCache' = r.apiCache
          /\ fileRole' = role
          /\ lastRoute' = [op |-> "generate_response", query |-> query,
                           intent |-> "player_stats",
                           card |-> create_player_card(r.value, role), path |-> r.path]
    /\ UNCHANGED <<extVars, now, cbCache, scraperCache, lastCall, cfg, lookup, lastAgg, lastPlayer, chatVars,
                   nameCall, roster, recCache, lastRec, lastPitch, lastScore, compareCache,
                   lastCompare>>

(***************************************************************************)
(* ai_manager.py: AIManager, its default model and its available models.   *)
(***************************************************************************)
\* The members of the enum AIModel, by value.
AIModel == {"gemini", "openai", "rule-based"}

\* The elements of a list.
Members(list) == {list[i] : i \in 1..Len(list)}

\* _check_available_models: rule-based first, then each model whose API key
\* is set and whose module initialised.
check_available_models(gemini_key, gemini_available, openai_key, openai_available) ==
    <<"rule-based">>
        \o (IF gemini_key /\ gemini_available THEN <<"gemini">> ELSE <<>>)
        \o (IF openai_key /\ openai_available THEN <<"openai">> ELSE <<>>)

\* AIManager.__init__: the fields of the new object.
AIManager_init(default_model, available) ==
    [default_model |-> IF default_model \notin Members(available)
                       THEN "rule-based" ELSE default_model,
     available_models |-> available]

\* set_default_model with the membership test as a parameter: the fields
\* afterwards and the value returned.
set_default_model_with(self, model, accepted) ==
    IF accepted
    THEN [self |-> [self EXCEPT !.default_model = model], result |-> TRUE]
    ELSE [self |-> self, result |-> FALSE]

\* The same method without its membership test.
set_default_model_unchecked(self, model) ==
    set_default_model_with(self, model, TRUE)

\* AIManager.set_default_model.
set_default_model(self, model) ==
    set_default_model_with(self, model, model \in Members(self.available_models))

\* No AIManager constructed yet.  The ghost fields: the method last called,
\* its argument, the value it returned and the default model before it.
NoManager ==
    [op |-> "none", default_model |-> "none", available_models |-> <<>>,
     arg |-> "none", result |-> FALSE, before |-> "none", calls |-> 0]

\* AIManager(default_model) under some configuration of keys and modules.
Construct(default_model, gemini_key, gemini_available, openai_key, openai_available) ==
    /\ manager.op = "none"
    /\ \E self \in {AIManager_init(default_model,
                        check_available_models(gemini_key, gemini_available,
                                               openai_key, openai_available))} :
          manager' = [op |-> "__init__", default_model |-> self.default_model,
                      available_models |-> self.available_models,
                      arg |-> default_model, result |-> FALSE, before |-> "none",
                      calls |-> 0]
    /\ UNCHANGED <<coreVars, oldLibVars, fetch, disk, sources, table, lastPick, helpLog>>

\* manager.set_default_model(model).
SetDefaultModel(model) ==
    /\ manager.op # "none"
    /\ manager.calls < MaxSetCalls
    /\ \E r \in {set_default_model([default_model |-> manager.default_model,
                                    available_models |-> manager.available_models],
                                   model)} :
          manager' = [op |-> "set_default_model",
                      default_model |-> r.self.default_model,
                      available_models |-> r.self.available_models,
                      arg |-> model, result |-> r.result,
                      before |-> manager.default_model, calls |-> manager.calls + 1]
    /\ UNCHANGED <<coreVars, oldLibVars, fetch, disk, sources, table, lastPick, helpLog>>

\* manager.get_available_models(): the values of the available models; the
\* object is left as it was.
GetAvailableModels ==
    /\ manager.op # "none"
    /\ manager' = [manager EXCEPT !.op = "get_available_models", !.arg = "none",
                                  !.result = FALSE, !.before = manager.default_model]
    /\ UNCHANGED <<coreVars, oldLibVars, fetch, disk, sources, table, lastPick, helpLog>>

(***************************************************************************)
(* gemini_assistant.py: fetch_data_based_on_decision, its fetch threads    *)
(* and the results dict they share with the caller.                        *)
(***************************************************************************)
\* The keys of results, in the order the caller reads them.
FetchKeys == <<"player", "match", "fantasy", "general">>

\* The decisions the threads are started from: the query type and whether
\* a player name was extracted.
Decisions ==
    [query_type : {"player_stats", "match", "fantasy", "general"}, player_name : BOOLEAN]

\* result = {'data': None, 'source': None}, and what each helper can return.
NoFetchResult == [data |-> "none", source |-> "none"]

FetchResults(k) ==
    {NoFetchResult}
        \cup {[data |-> k, source |-> s] :
                s \in CASE k = "player" -> {"Web Scraping", "Cricbuzz API", "Cricsheet"}
                        [] k = "match" -> {"Web Scraping", "Cricbuzz API"}
                        [] k = "fantasy" -> {"Fantasy Engine"}
                        [] OTHER -> {"Multiple Sources"}}

\* The threads the call starts.
started_threads(decision) ==
    (IF decision.query_type = "player_stats" /\ decision.player_name THEN {"player"} ELSE {})
        \cup (IF decision.query_type = "match" THEN {"match"} ELSE {})
        \cup (IF decision.query_type = "fantasy" THEN {"fantasy"} ELSE {})
        \cup {"general"}

NoData ==
    [player_data |-> "none", match_data |-> "none", fantasy_data |-> "none",
     general_data |-> "none", source |-> "none"]

\* results[k] before thread k has updated it: None.
NotUpdated == [data |-> "nothing", source |-> "nothing"]

\* No call yet.  The
\* ghost fields: whether a join timed out, the threads that had completed
\* when the joins ended, and the threads that updated results after that.
IdleFetch ==
    [pc |-> "idle", decision |-> [query_type |-> "general", player_name |-> FALSE],
     threads |-> [k \in Members(FetchKeys) |-> "none"],
     results |-> [k \in Members(FetchKeys) |-> NotUpdated],
     data |-> NoData, timed_out |-> FALSE, joined |-> {}, late |-> {}]

\* results[k] and results[k]['data']
has_data(results, k) == results[k] # NotUpdated /\ results[k].data # "none"

\* The call up to the joins: data and results are created and the threads
\* started.
FetchStart(decision) ==
    /\ fetch.pc = "idle"
    /\ fetch' = [IdleFetch EXCEPT
                    !.pc = "joining", !.decision = decision,
                    !.threads = [k \in Members(FetchKeys) |->
                                    IF k \in started_threads(decision)
                                    THEN "running" ELSE "none"]]
    /\ UNCHANGED <<coreVars, oldLibVars, manager, disk, sources, table, lastPick, helpLog>>

\* The target of thread k returns from its helper and runs
\* results.update({k: result}), whatever the caller is doing.
ThreadEnds(k, result) ==
    /\ fetch.threads[k] = "running"
    /\ fetch' = [fetch EXCEPT
                    !.threads[k] = "done", !.results[k] = result,
                    !.late = IF fetch.pc = "joining" THEN @ ELSE @ \cup {k}]
    /\ UNCHANGED <<coreVars, oldLibVars, manager, disk, sources, table, lastPick, helpLog>>

\* Every join returned because its thread had ended.
JoinAll ==
    /\ fetch.pc = "joining"
    /\ \A k \in Members(FetchKeys) : fetch.threads[k] # "running"
    /\ fetch' = [fetch EXCEPT
                    !.pc = "read_player",
                    !.joined = {k \in Members(FetchKeys) : fetch.threads[k] = "done"}]
    /\ UNCHANGED <<coreVars, oldLibVars, manager, disk, sources, table, lastPick, helpLog>>

\* overall_timeout passed with a thread still running: its join and the
\* joins after it return at once.
JoinTimeout ==
    /\ fetch.pc = "joining"
    /\ \E k \in Members(FetchKeys) : fetch.threads[k] = "running"
    /\ fetch' = [fetch EXCEPT
                    !.pc = "read_player", !.timed_out = TRUE,
                    !.joined = {k \in Members(FetchKeys) : fetch.threads[k] = "done"}]
    /\ UNCHANGED <<coreVars, oldLibVars, manager, disk, sources, table, lastPick, helpLog>>

\* if results['player'] and results['player']['data']: ...
ReadPlayer ==
    /\ fetch.pc = "read_player"
    /\ fetch' = [fetch EXCEPT
                    !.pc = "read_match",
                    !.data = IF has_data(fetch.results, "player")
                             THEN [@ EXCEPT !.player_data = fetch.results["player"].data,
                                            !.source = fetch.results["player"].source]
                             ELSE @]
    /\ UNCHANGED <<coreVars, oldLibVars, manager, disk, sources, table, lastPick, helpLog>>

\* if results['match'] and results['match']['data']: ...
ReadMatch ==
    /\ fetch.pc = "read_match"
    /\ fetch' = [fetch EXCEPT
                    !.pc = "read_fantasy",
                    !.data = IF has_data(fetch.results, "match")
                             THEN [@ EXCEPT !.match_data = fetch.results["match"].data,
                                            !.source = IF @ = "none"
                                                       THEN fetch.results["match"].source
                                                       ELSE @]
                             ELSE @]
    /\ UNCHANGED <<coreVars, oldLibVars, manager, disk, sources, table, lastPick, helpLog>>

\* if results['fantasy'] and results['fantasy']['data']: ...
ReadFantasy ==
    /\ fetch.pc = "read_fantasy"
    /\ fetch' = [fetch EXCEPT
                    !.pc = "read_general",
                    !.data = IF has_data(fetch.results, "fantasy")
                             THEN [@ EXCEPT !.fantasy_data = fetch.results["fantasy"].data,
                                            !.source = IF @ = "none"
                                                       THEN fetch.results["fantasy"].source
                                                       ELSE @]
                             ELSE @]
    /\ UNCHANGED <<coreVars, oldLibVars, manager, disk, sources, table, lastPick, helpLog>>

\* The general context as a fallback, and the return of data.
ReadGeneral ==
    /\ fetch.pc = "read_general"
    /\ fetch' = [fetch EXCEPT
                    !.pc = "returned",
                    !.data = IF /\ fetch.data.player_data = "none"
                                /\ fetch.data.match_data = "none"
                                /\ fetch.data.fantasy_data = "none"
                                /\ has_data(fetch.results, "general")
                             THEN [@ EXCEPT !.general_data = fetch.results["general"].data,
                                            !.source = fetch.results["general"].source]
                             ELSE @]
    /\ UNCHANGED <<coreVars, oldLibVars, manager, disk, sources, table, lastPick, helpLog>>

(***************************************************************************)
(* One cache file written with open(cache_file, 'w') + json.dump and read  *)
(* with open(cache_file, 'r') + json.load by processes and threads that    *)
(* take no lock (cricket_data_adapter.get_player_stats, CricbuzzClient).   *)
(***************************************************************************)
\* The callers that write the file.
Writers == {"w1", "w2"}

\* The text of a record reaches the file in blocks, one per flush of the
\* file object's buffer: block i of the n blocks of writer w's record.
Block(w, i, n) == [by |-> w, i |-> i, n |-> n]

\* The bytes an offset beyond the end of the file leaves behind it.
Hole == [by |-> "nobody", i |-> 0, n |-> 0]

\* The file after a block is written at offset pos (in blocks).
write_at(content, pos, block) ==
    [i \in 1..(IF Len(content) > pos THEN Len(content) ELSE pos + 1) |->
        IF i = pos + 1 THEN block
        ELSE IF i <= Len(content) THEN content[i] ELSE Hole]

\* The text is the whole text json.dump wrote for one record.
is_whole_record(content) ==
    /\ content # <<>>
    /\ Len(content) = content[1].n
    /\ \A i \in 1..Len(content) : content[i] = Block(content[1].by, i, content[1].n)

\* The text has a block at every place of a record, not all of one writer.
is_mixed_record(content) ==
    /\ content # <<>>
    /\ ~is_whole_record(content)
    /\ \A i \in 1..Len(content) : content[i].i = i /\ content[i].n = Len(content)

\* json.load on the text read: the record, an exception, or, for a text put
\* together from the blocks of two records, whichever of the two the
\* bytes at the seams give.
json_load(content) ==
    IF is_whole_record(content) THEN {[kind |-> "record", by |-> content[1].by]}
    ELSE IF is_mixed_record(content)
         THEN {[kind |-> "raises", by |-> "nobody"], [kind |-> "record", by |-> "mixed"]}
         ELSE {[kind |-> "raises", by |-> "nobody"]}

\* No file, no writer at work, nothing read.
NoDisk ==
    [exists |-> FALSE, content |-> <<>>,
     writer |-> [w \in Writers |-> [pc |-> "idle", pos |-> 0, n |-> 0, writes |-> 0]],
     read |-> [op |-> "none", found |-> FALSE, kind |-> "none", by |-> "nobody",
               text |-> <<>>]]

\* open(cache_file, 'w'): the file is created or truncated.
WriterOpens(w, n) ==
    /\ disk.writer[w].pc = "idle"
    /\ disk.writer[w].writes < MaxWrites
    /\ disk' = [disk EXCEPT !.exists = TRUE, !.content = <<>>,
                            !.writer[w] = [pc |-> "open", pos |-> 0, n |-> n,
                                           writes |-> @.writes + 1]]
    /\ UNCHANGED <<coreVars, oldLibVars, manager, fetch, sources, table, lastPick, helpLog>>

\* The buffer of the file object is flushed: the next block of the text
\* goes to the file at the writer's own offset.
WriterFlushes(w) ==
    /\ disk.writer[w].pc = "open"
    /\ disk.writer[w].pos < disk.writer[w].n
    /\ disk' = [disk EXCEPT
                  !.content = <<>> \o write_at(@, disk.writer[w].pos,
                                         Block(w, disk.writer[w].pos + 1, disk.writer[w].n)),
                  !.writer[w].pos = @ + 1]
    /\ UNCHANGED <<coreVars, oldLibVars, manager, fetch, sources, table, lastPick, helpLog>>

\* The with block ends after the last flush.
WriterCloses(w) ==
    /\ disk.writer[w].pc = "open"
    /\ disk.writer[w].pos = disk.writer[w].n
    /\ disk' = [disk EXCEPT !.writer[w].pc = "idle"]
    /\ UNCHANGED <<coreVars, oldLibVars, manager, fetch, sources, table, lastPick, helpLog>>

\* os.path.exists(cache_file), then open(cache_file, 'r') and json.load.
ReaderLoads ==
    /\ \/ /\ ~disk.exists
          /\ disk' = [disk EXCEPT !.read = [op |-> "load", found |-> FALSE,
                                            kind |-> "none", by |-> "nobody",
                                            text |-> <<>>]]
       \/ /\ disk.exists
          /\ \E r \in json_load(disk.content) :
                disk' = [disk EXCEPT !.read = [op |-> "load", found |-> TRUE,
                                               kind |-> r.kind, by |-> r.by,
                                               text |-> disk.content]]
    /\ UNCHANGED <<coreVars, oldLibVars, manager, fetch, sources, table, lastPick, helpLog>>

(***************************************************************************)
(* get_player_stats called again after a call that every source failed.    *)
(***************************************************************************)
\* Nothing observed yet.  archive: CRICSHEET_ENABLED and the parser has
\* statistics to generate at the time of the call; realtime: the real-time
\* client answered with statistics of the player.
NoSources == [op |-> "none", archive |-> FALSE, realtime |-> FALSE]

\* get_player_stats(query) without force_refresh, with what its sources had
\* to give at the time of the call.
PlayerStatsAgain(query, gen, oSearch, oStats, draw) ==
    /\ \E r \in {get_player_stats(playerFile, apiCache, query, FALSE, now, cfg,
                                  gen, oSearch, oStats, draw)} :
          /\ playerFile' = r.file
          /\ apiCache' = r.apiCache
          /\ lastPlayer' = [op |-> "get_player_stats", query |-> query, force |-> FALSE,
                            path |-> r.path, value |-> r.value, at |-> now,
                            apiCalled |-> r.apiCalled, fetched |-> r.fetched,
                            archive |-> r.archive, realtime |-> r.realtime,
                            repeat |-> /\ lastPlayer.op = "get_player_stats"
                                       /\ lastPlayer.query = query
                                       /\ ~lastPlayer.force
                                       /\ (now - lastPlayer.at) < PLAYER_FILE_EXPIRY,
                            identical |-> r.value = lastPlayer.value]
          /\ sources' = [op |-> "get_player_stats",
                         archive |-> cfg.cricsheet /\ gen = "stats",
                         realtime |-> r.realtime.shape # "none"]
    /\ UNCHANGED <<now, cbCache, scraperCache, lastCall, cfg, lookup, lastAgg, chatVars,
                   oldLibVars, manager, fetch, disk, table, lastPick, helpLog>>

(***************************************************************************)
(* cricket_data_reliable.PLAYER_DATA, the fallback table of players, and   *)
(* the functions that hand out its dicts.                                  *)
(***************************************************************************)
\* An entry of the table with the fields the functions read, in tenths of
\* a point.  added: the keys the entry has that the table's source text
\* does not give it.
TableEntry(name, team, role, fantasy_points_avg) ==
    [name |-> name, team |-> team, role |-> role,
     fantasy_points_avg |-> fantasy_points_avg, added |-> {}]

FALLBACK_PLAYER_DATA ==
    <<TableEntry("Virat Kohli", "India", "Batsman", 853),
      TableEntry("Jasprit Bumrah", "India", "Bowler", 785),
      TableEntry("Kane Williamson", "New Zealand", "Batsman", 725)>>

\* The place of the entry _get_fallback_player_stats returns for an exact
\* match of the lower-cased name, 0 when no entry has the name.
fallback_entry(tab, player_name) ==
    IF \E i \in 1..Len(tab) : tab[i].name = player_name
    THEN CHOOSE i \in 1..Len(tab) :
            tab[i].name = player_name /\ \A j \in 1..(i - 1) : tab[j].name # player_name
    ELSE 0

\* The table after get_player_stats took player_data from it: the entry
\* itself is stamped with last_updated, name and, for a corrected query,
\* original_query.
stamp_entry(tab, player_name, corrected_name) ==
    LET i == fallback_entry(tab, corrected_name)
    IN  IF i = 0 THEN tab
        ELSE [tab EXCEPT ![i].name = corrected_name,
                         ![i].added = @ \cup {"last_updated"}
                                        \cup (IF player_name # corrected_name
                                              THEN {"original_query"} ELSE {})]

\* pitch_conditions.get(key, 5), for the dict of a venue or {}.
pitch_get(pitch_conditions, key) ==
    IF key \in DOMAIN pitch_conditions THEN pitch_conditions[key] ELSE 5

venue_bonus(player, pitch_conditions) ==
    IF player.role = "Batsman" /\ pitch_get(pitch_conditions, "batting_friendly") >= 7 THEN 5
    ELSE IF player.role = "Bowler" /\ pitch_get(pitch_conditions, "pace_friendly") >= 7 THEN 5
    ELSE IF player.role = "Bowler" /\ pitch_get(pitch_conditions, "spin_friendly") >= 7 THEN 5
    ELSE 0

\* get_recommended_players(role, team, venue): the entries of the table
\* that pass the filters, best first, and the table afterwards.  "" stands
\* for an argument left None.  With a venue every entry that passed gets
\* the key adjusted_score.
get_recommended_players(tab, role, team, venue, pitch_conditions) ==
    LET passes(p) ==
            /\ role # "" => Lower(Chars(p.role)) = Lower(Chars(role))
            /\ team # "" => Contains(Lower(Chars(p.team)), Lower(Chars(team)))
        all_players == SelectSeq(<<>> \o [i \in 1..Len(tab) |-> i], LAMBDA i : passes(tab[i]))
        adjusted_score(i) == tab[i].fantasy_points_avg + 10 * venue_bonus(tab[i], pitch_conditions)
        order == SortedDescending(<<>> \o [k \in 1..Len(all_players) |->
                    IF venue # "" THEN adjusted_score(all_players[k])
                    ELSE tab[all_players[k]].fantasy_points_avg])
        after == [i \in 1..Len(tab) |->
                    IF venue # "" /\ \E k \in 1..Len(all_players) : all_players[k] = i
                    THEN [tab[i] EXCEPT !.added = @ \cup {"adjusted_score"}]
                    ELSE tab[i]]
    IN  [value |-> <<>> \o [k \in 1..Len(all_players) |-> after[all_players[order[k]]]],
         table |-> <<>> \o after]

\* The table as the module defines it; nothing called yet.
NewTable == [entries |-> FALLBACK_PLAYER_DATA, op |-> "none", value |-> <<>>]

\* get_player_stats(q, force_refresh); when neither the archive nor the
\* real-time client gave a record, player_data is the table's own dict.
TablePlayerStats(q, force_refresh, gen, oSearch, oStats, draw) ==
    /\ \E r \in {get_player_stats(playerFile, apiCache, q, force_refresh, now, cfg,
                                  gen, oSearch, oStats, draw)} :
          /\ playerFile' = r.file
          /\ apiCache' = r.apiCache
          /\ lastPlayer' = [op |-> "get_player_stats", query |-> q, force |-> force_refresh,
                            path |-> r.path, value |-> r.value, at |-> now,
                            apiCalled |-> r.apiCalled, fetched |-> r.fetched,
                            archive |-> r.archive, realtime |-> r.realtime,
                            repeat |-> /\ lastPlayer.op = "get_player_stats"
                                       /\ lastPlayer.query = q
                                       /\ ~lastPlayer.force /\ ~force_refresh
                                       /\ (now - lastPlayer.at) < PLAYER_FILE_EXPIRY,
                            identical |-> r.value = lastPlayer.value]
          /\ table' = [entries |-> IF r.path = "fresh" /\ r.value.hist = "fallback"
                                   THEN stamp_entry(table.entries, q, corrected_name_of(q))
                                   ELSE table.entries,
                       op |-> "get_player_stats", value |-> <<>>]
    /\ UNCHANGED <<now, cbCache, scraperCache, lastCall, cfg, lookup, lastAgg, chatVars,
                   oldLibVars, manager, fetch, disk, sources, lastPick, helpLog>>

\* get_recommended_players(role, team, venue) with the pitch of the venue.
RecommendedPlayers(role, team, venue, pitch_conditions) ==
    /\ \E r \in {get_recommended_players(table.entries, role, team, venue, pitch_conditions)} :
          table' = [entries |-> r.table, op |-> "get_recommended_players",
                    value |-> r.value]
    /\ UNCHANGED <<coreVars, oldLibVars, manager, fetch, disk, sources, lastPick, helpLog>>

(***************************************************************************)
(* fantasy_recommendations.get_differential_picks(match_id) over the       *)
(* matches the aggregator lists.                                           *)
(***************************************************************************)
\* The matches the sources know, each with the records get_player_stats
\* has for the players of its two teams.
PickMatches ==
    [m1 |-> [id |-> "m1", match |-> "two_teams",
             pool |-> <<PlayerOfKind("star", <<"star", 1>>),
                        PlayerOfKind("popular", <<"popular", 2>>)>>],
     m2 |-> [id |-> "m2", match |-> "two_teams",
             pool |-> <<PlayerOfKind("star", <<"star", 3>>),
                        PlayerOfKind("star", <<"star", 4>>)>>]]

\* What get_live_cricket_matches() (or else get_upcoming_matches()) lists.
MatchLists ==
    {<<>>, <<PickMatches.m1>>, <<PickMatches.m1, PickMatches.m2>>,
     <<PickMatches.m2, PickMatches.m1>>}

\* The match_id arguments; "" stands for None.
MatchIdArgs == {"", "m1", "m2", "m9"}

\* get_differential_picks(match_id): the cache is looked up first, then
\* the list of matches is filtered by match_id (when given) and the picks
\* are computed for its first match.
get_differential_picks_of(cache, matches, match_id, t, seed) ==
    LET found == IF match_id # "" THEN SelectSeq(matches, LAMBDA m : m.id = match_id)
                 ELSE matches
    IN  IF found = <<>>
        THEN get_differential_picks(cache, <<>>, "none", t, seed)
        ELSE get_differential_picks(cache, found[1].pool, found[1].match, t, seed)

NoPickCall ==
    [op |-> "none", match_id |-> "", matches |-> <<>>, value |-> <<>>, pool |-> <<>>,
     fresh |-> FALSE]

\* get_differential_picks(match_id) is called.
DifferentialPicksOf(matches, match_id, seed) ==
    /\ \E r \in {get_differential_picks_of(recCache, matches, match_id, now, seed)} :
          /\ recCache' = r.cache
          /\ lastPick' = [op |-> "get_differential_picks", match_id |-> match_id,
                          matches |-> matches, value |-> r.value, pool |-> r.pool,
                          fresh |-> r.fresh]
    /\ UNCHANGED <<coreVars, nameCall, roster, lastRec, lastPitch, lastScore, compareCache,
                   lastCompare, routeVars, manager, fetch, disk, sources, table, helpLog>>

(***************************************************************************)
(* assistant.generate_response: the whole order of its pattern tests.      *)
(***************************************************************************)
Digits == <<"0", "1", "2", "3", "4", "5", "6", "7", "8", "9">>

\* The character classes of PATTERNS: [A-Za-z ], [A-Za-z0-9] and the dot.
InClass(class, c) ==
    CASE class = "name" -> IsNameChar(c)
      [] class = "alnum" -> (c # " " /\ IsNameChar(c)) \/ \E k \in 1..10 : Digits[k] = c
      [] OTHER -> TRUE

\* word, a space, preposition, a space: the texts `(w1|w2) (p1|p2) ` matches.
HeadsOf(words, preps) ==
    {Chars(words[a]) \o <<" ">> \o Chars(preps[b]) \o <<" ">> :
        a \in 1..Len(words), b \in 1..Len(preps)}

\* re.search of `head(class+)`: one of the heads followed by at least one
\* character of the class.
SearchHead(s, heads, class) ==
    \E i \in 1..Len(s) : \E h \in heads :
        /\ StartsAt(s, h, i)
        /\ i + Len(h) <= Len(s)
        /\ InClass(class, s[i + Len(h)])

\* re.search of `before(class+)after(any*)`: before, at least one character
\* of the class, after, and then at least rest more characters.
SearchBetween(s, before, class, after, rest) ==
    \E i \in 1..Len(s) :
        /\ StartsAt(s, before, i)
        /\ \E j \in (i + Len(before) + 1)..Len(s) :
              /\ StartsAt(s, after, j)
              /\ \A k \in (i + Len(before))..(j - 1) : InClass(class, s[k])
              /\ j + Len(after) - 1 + rest <= Len(s)

\* PATTERNS['player_form']
search_player_form(s) ==
    \/ SearchHead(s, HeadsOf(<<"form", "performance">>, <<"of", "for">>), "name")
    \/ SearchBetween(s, Chars("how is "), "name", Chars(" playing"), 0)

\* PATTERNS['recommend_players']
search_recommend_players(s) ==
    \/ SearchAny(s, <<"recommend", "suggest", "best", "top">>)
    \/ SearchHead(s, {Chars("pick") \o <<" ">>}, "any")

\* PATTERNS['fantasy_rules']
search_fantasy_rules(s) ==
    SearchAny(s, <<"rules", "scoring", "points", "how to play", "how to score", "how do play",
                   "how do score", "fantasy rules", "fantasy points", "fantasy scoring">>)

\* PATTERNS['pitch_report']
search_pitch_report(s) ==
    \/ SearchAny(s, <<"pitch", "ground", "stadium", "venue">>)
    \/ SearchHead(s, HeadsOf(<<"condition", "conditions">>, <<"in", "at", "of">>), "any")

\* PATTERNS['captain_picks']; its fourth alternative is the letter c.  Of
\* the whitespace \s stands for, the space is kept.
search_captain_picks(s) ==
    SearchAny(s, <<"captain", "vice captain", "vice-captain", "vc", "c",
                   "who should be my captain", "who should be  captain",
                   "who should i pick as my captain", "who should i pick as  captain">>)

\* PATTERNS['upcoming_matches'], ['recent_matches'] and ['live_matches']
upcoming_pattern == <<"matches", "schedule", "fixture", "upcoming", "next match">>

recent_pattern == <<"recent", "last", "previous", "completed", "finished", "results">>

live_pattern == <<"live", "current", "ongoing", "today", "now", "playing">>

\* PATTERNS['match_details']
search_match_details(s) ==
    SearchHead(s, HeadsOf(<<"match", "game", "scorecard", "details", "score">>,
                          <<"of", "for", "about", "id">>), "alnum")

\* PATTERNS['compare']
search_compare(s) ==
    \/ SearchAny(s, <<"compare", "versus", "vs">>)
    \/ SearchBetween(s, Chars("difference between "), "any", Chars(" and "), 1)

\* The keys of player_names.
player_names ==
    <<"kohli", "virat", "virat kohli", "rohit", "sharma", "rohit sharma", "bumrah", "jasprit",
      "jasprit bumrah", "williamson", "kane", "kane williamson", "rashid", "rashid khan",
      "stokes", "ben", "ben stokes", "dhoni", "ms", "ms dhoni">>

\* The end of generate_response, for a query no pattern matched: a player
\* named in it gives the stats handler or the form handler, else the help
\* menu is returned.
named_player_intent(query) ==
    LET low == Lower(query)
    IN  IF ~SearchAny(low, player_names) THEN "help"
        ELSE IF Len(Split(query)) <= 3 THEN "player_stats"
        ELSE IF SearchAny(low, <<"form", "performance">>) THEN "player_form"
        ELSE "player_stats"

\* generate_response: the handler of the first test that succeeds.
dispatch_intent(query) ==
    LET low == Lower(query)
    IN  IF route_intent(query) # "later" THEN route_intent(query)
        ELSE IF search_player_form(low) THEN "player_form"
        ELSE IF search_recommend_players(low) THEN "recommend_players"
        ELSE IF search_fantasy_rules(low) THEN "fantasy_rules"
        ELSE IF search_pitch_report(low) THEN "pitch_report"
        ELSE IF search_captain_picks(low) THEN "captain_picks"
        ELSE IF SearchAny(low, upcoming_pattern) THEN "upcoming_matches"
        ELSE IF SearchAny(low, recent_pattern) THEN "recent_matches"
        ELSE IF SearchAny(low, live_pattern) THEN "live_matches"
        ELSE IF search_match_details(low) THEN "match_details"
        ELSE IF search_compare(low) THEN "compare"
        ELSE named_player_intent(query)

\* The examples of the help menu, each under the intent the menu lists it
\* for.
HelpMenu ==
    [player_stats |-> "Show me stats for Virat Kohli",
     player_form |-> "How is Bumrah playing?",
     recommend_players |-> "Suggest batsmen for today's match",
     fantasy_rules |-> "Explain fantasy cricket scoring",
     pitch_report |-> "Pitch conditions in Mumbai",
     captain_picks |-> "Who should be my captain?",
     upcoming_matches |-> "Show upcoming matches",
     recent_matches |-> "Show recent match results",
     live_matches |-> "Show live matches",
     match_details |-> "Match details for 12345",
     compare |-> "Compare Rohit and Kohli"]

\* The queries of a conversation: the examples, a bare name and a remark.
DispatchQueries == {HelpMenu[k] : k \in DOMAIN HelpMenu} \cup {"Bumrah", "Well played"}

DispatchTable == [q \in DispatchQueries |-> dispatch_intent(Chars(q))]

\* Nothing asked yet.  asked: the queries of the conversation so far.
NoDispatch == [op |-> "none", query |-> "", intent |-> "none", asked |-> {}]

\* generate_response(query) up to the choice of the handler.
Dispatch(query) ==
    /\ Cardinality(helpLog.asked \cup {query}) <= MaxAsked
    /\ helpLog' = [op |-> "generate_response", query |-> query,
                   intent |-> lookup.dispatch[query],
                   asked |-> helpLog.asked \cup {query}]
    /\ UNCHANGED <<coreVars, oldLibVars, manager, fetch, disk, sources, table, lastPick>>

(***************************************************************************)
(* Specifications.                                                         *)
(***************************************************************************)
\* The bodies the clients' own steps are run on.
CbClientBodies ==
    {[shape |-> "typeMatches", matches |-> <<cbPast>>],
     [shape |-> "emptyobj", matches |-> <<>>],
     [shape |-> "nullTypeMatches", matches |-> <<>>]}

ApiClientBodies ==
    {[shape |-> "success", matches |-> <<apiLive>>],
     [shape |-> "failure", matches |-> <<>>],
     [shape |-> "array", matches |-> <<>>]}

\* What the two requests of the real-time lookup are run on: a failed request,
\* the player found or a JSON array for the search; a failed request, the
\* stats or an empty stats object for playerStats.
Timeout == [status |-> "timeout", body |-> NoBody]

SearchOutcomes ==
    {Timeout}
        \cup {[status |-> "ok", body |-> b] :
                  b \in {x \in ApiPlayerBodies : x.shape = "array" \/ x.matches # <<>>}}

StatsOutcomes ==
    {Timeout}
        \cup {[status |-> "ok", body |-> b] : b \in {x \in ApiPlayerBodies : x.shape = "success"}}

Configs == [cricbuzz : BOOLEAN, cricsheet : BOOLEAN, api : BOOLEAN]

InitAll ==
    /\ now = 0
    /\ cbCache = [ep \in CbEndpoints |-> Absent]
    /\ apiCache = [ep \in ApiEndpoints |-> Absent]
    /\ scraperCache = Absent
    /\ lastCall = NoCall
    /\ cfg \in Configs
    /\ lookup = [names |-> NormalizedQueries, routes |-> RouteTable,
                 dispatch |-> DispatchTable]
    /\ lastAgg = NoAgg
    /\ playerFile = AbsentFile
    /\ lastPlayer = NoPlayerCall
    /\ chat = IdleChat
    /\ lastReply = NoReply
    /\ nameCall = NoNameCall
    /\ roster = <<>>
    /\ recCache = EmptyRecCache
    /\ lastRec = NoRec
    /\ lastPitch = NoPitchCall
    /\ lastScore = NoScoreCall
    /\ compareCache = NoComparison
    /\ lastCompare = NoCompareCall
    /\ fileRole = ""
    /\ lastRoute = NoRoute
    /\ manager = NoManager
    /\ fetch = IdleFetch
    /\ disk = NoDisk
    /\ sources = NoSources
    /\ table = NewTable
    /\ lastPick = NoPickCall
    /\ helpLog = NoDispatch

\* Every source enabled.
InitEnabled == InitAll /\ cfg = [cricbuzz |-> TRUE, cricsheet |-> TRUE, api |-> TRUE]

NextClients ==
    \/ \E ep \in CbEndpoints, f \in BOOLEAN, o \in Outcomes(CbClientBodies) :
            CricbuzzRead(ep, f, o)
    \/ \E o \in Outcomes(ApiClientBodies) : CricApiRead("currentMatches", o)
    \/ \E e \in ScrapeOutcomes, c \in ScrapeOutcomes : ScraperRead(e, c)
    \/ \E d \in {ShortTick, LongTick} : ClientTime(d)

\* The source clients on their own.
SpecClients == InitEnabled /\ [][NextClients]_vars

NextPlayer ==
    \/ \E q \in Queries, f \in BOOLEAN :
         \E gen \in IF cfg.cricsheet THEN CsGenOutcomes ELSE {"raises"} :
         \E draw \in IF cfg.api THEN RandomDraws ELSE {"draw1"} :
         \E oSearch \in IF cfg.api THEN SearchOutcomes ELSE {Timeout} :
         \E oStats \in IF cfg.api THEN StatsOutcomes ELSE {Timeout} :
            PlayerStats(q, f, gen, oSearch, oStats, draw)
    \/ PlayerTime

\* get_player_stats over every configuration, with its file and the CricAPI
\* caches it reads through.
InitPlayer == InitAll /\ cfg.cricbuzz

SpecPlayer == InitPlayer /\ [][NextPlayer]_vars

NextChat ==
    \/ \E q \in ChatQueries, g \in BOOLEAN : ChatStart(q, g)
    \/ ChatTime
    \/ \E res \in WorkerResults(TRUE) \cup WorkerResults(FALSE) : WorkerEnds(res)
    \/ JoinReturns
    \/ \E named \in BOOLEAN : ExtractReturns(named)
    \/ \E model \in Models, available \in SUBSET {"gemini", "openai"}, oa \in BOOLEAN :
         \E ctx \in ContextOutcomes, llm \in CompletionOutcomes, rule \in RuleOutcomes :
            ProcessQuery(model, available, oa, ctx, llm, rule)

\* The chat entry points.
SpecChat == InitEnabled /\ [][NextChat]_vars

NextNames == \E player_name \in NameInputs : NormalizeName(player_name)

\* normalize_player_name on its own.
SpecNames == InitEnabled /\ [][NextNames]_vars

NextPicks ==
    \/ \E r \in 1..Len(PlayerKinds) : AddPlayer(PlayerKinds[r])
    \/ \E match \in MatchOutcomes, seed \in Seeds : DifferentialPicks(match, seed)
    \/ RecTime

\* get_differential_picks with its cache.
SpecPicks == InitEnabled /\ [][NextPicks]_vars

NextCaptains ==
    \/ \E r \in 1..Len(PlayerKinds) : AddPlayer(PlayerKinds[r])
    \/ \E match \in MatchOutcomes, seed \in Seeds : CaptainPicks(match, seed)
    \/ RecTime

\* get_captain_picks with its cache.
SpecCaptains == InitEnabled /\ [][NextCaptains]_vars

NextScores ==
    \E player \in PartialRecords, seed \in Seeds :
        \/ DifferentialScore(player, seed)
        \/ CaptainScore(player, seed)
        \/ PlayerScore(player, seed)

SpecScores == InitEnabled /\ [][NextScores]_vars

NextCompare ==
    \/ \E player1 \in RohitRecords, player2 \in KohliRecords, seed \in Seeds :
          ComparePlayers(player1, player2, seed)
    \/ \E player1 \in RohitRecords, player2 \in KohliRecords :
          HandleComparePlayers(player1, player2)
    \/ RecTime

SpecCompare == InitEnabled /\ [][NextCompare]_vars

NextRouter ==
    \/ \E query \in RouterQueries : RouteWord(query)
    \/ \E query \in RouterQueries :
         \E gen \in IF cfg.cricsheet THEN CsGenOutcomes ELSE {"raises"} :
         \E draw \in IF cfg.api THEN RandomDraws ELSE {"draw1"} :
         \E oSearch \in IF cfg.api THEN SearchOutcomes ELSE {Timeout} :
         \E oStats \in IF cfg.api THEN StatsOutcomes ELSE {Timeout} :
         \E sim \in SimulatedRoles :
            RoutePlayerStats(query, gen, oSearch, oStats, draw, sim)
    \/ PlayerTime

SpecRouter == InitPlayer /\ [][NextRouter]_vars

NextMatches ==
    LiveMatches \/ UpcomingMatches \/ RecentMatches \/ MatchDetails \/ PitchConditions

\* The aggregator's match reads over every configuration.
SpecMatches == InitAll /\ [][NextMatches]_vars

NextManager ==
    \/ \E default_model \in AIModel, gemini_key \in BOOLEAN, gemini_available \in BOOLEAN,
          openai_key \in BOOLEAN, openai_available \in BOOLEAN :
          Construct(default_model, gemini_key, gemini_available, openai_key, openai_available)
    \/ \E model \in AIModel : SetDefaultModel(model)
    \/ GetAvailableModels

\* One AIManager from its construction on.
SpecManager == InitEnabled /\ [][NextManager]_vars

NextFetch ==
    \/ \E decision \in Decisions : FetchStart(decision)
    \/ \E k \in Members(FetchKeys) : \E result \in FetchResults(k) : ThreadEnds(k, result)
    \/ JoinAll
    \/ JoinTimeout
    \/ ReadPlayer
    \/ ReadMatch
    \/ ReadFantasy
    \/ ReadGeneral

\* One call of fetch_data_based_on_decision with its threads.
SpecFetch == InitEnabled /\ [][NextFetch]_vars

NextDisk ==
    \/ \E w \in Writers, n \in 1..MaxBlocks : WriterOpens(w, n)
    \/ \E w \in Writers : WriterFlushes(w)
    \/ \E w \in Writers : WriterCloses(w)
    \/ ReaderLoads

\* Two writers and a reader of one cache file.
SpecDisk == InitEnabled /\ [][NextDisk]_vars

NextRecover ==
    \/ \E query \in Queries :
         \E gen \in IF cfg.cricsheet THEN CsGenOutcomes ELSE {"raises"} :
         \E draw \in IF cfg.api THEN RandomDraws ELSE {"draw1"} :
         \E oSearch \in IF cfg.api THEN SearchOutcomes ELSE {Timeout} :
         \E oStats \in IF cfg.api THEN StatsOutcomes ELSE {Timeout} :
            PlayerStatsAgain(query, gen, oSearch, oStats, draw)
    \/ PlayerTime

\* get_player_stats without force_refresh while its sources fail and recover.
SpecRecover == InitPlayer /\ [][NextRecover]_vars

NextTable ==
    \/ \E q \in Queries, f \in BOOLEAN, gen \in CsGenOutcomes, oSearch \in SearchOutcomes :
            TablePlayerStats(q, f, gen, oSearch, Timeout, "draw1")
    \/ \E role \in {"", "Batsman", "bowler"}, team \in {"", "india"}, venue \in {"", "Wankhede"} :
         \E pitch_conditions \in {PitchDict(t) : t \in PitchTriples} \cup {<<>>} :
            RecommendedPlayers(role, team, venue, pitch_conditions)

\* The fallback table under the calls that read it, while the real-time
\* client finds no statistics.
SpecTable == InitEnabled /\ [][NextTable]_vars

NextMatchPicks ==
    \/ \E matches \in MatchLists, match_id \in MatchIdArgs, seed \in Seeds :
          DifferentialPicksOf(matches, match_id, seed)
    \/ RecTime

\* get_differential_picks(match_id) with its cache.
SpecMatchPicks == InitEnabled /\ [][NextMatchPicks]_vars

NextHelp == \E query \in DispatchQueries : Dispatch(query)

\* A conversation with the rule-based assistant.
SpecHelp == InitEnabled /\ [][NextHelp]_vars

(***************************************************************************)
(* Properties of the source clients (SpecClients).                         *)
(***************************************************************************)
\* C3: for every source client, when a live fetch fails and a previously
\* stored cache entry for the same request exists (even if expired), the
\* client returns that stale entry rather than an empty or error result.
C3_StaleServedOnFailure ==
    (lastCall.failed /\ lastCall.before.present /\ Truthy(lastCall.before.data))
        => lastCall.value = lastCall.before.data

\* C4: no network or parse failure (timeout, non-2xx status, malformed JSON
\* body, unexpected response shape) inside a client's read operation leaves
\* it as an exception.
C4_ReadNeverRaises == ~lastCall.raised

IsListRead == lastAgg.op \in {"live", "upcoming", "recent"}

\* C6: the aggregator never returns a record attributed to a source that
\* answered with an error structure: when Cricbuzz answers get_match_details
\* with its error response the record returned is not attributed to Cricbuzz.
C6_NoRecordFromErrorAnswer ==
    (lastAgg.op = "details" /\ lastAgg.cb.called
        /\ lastAgg.cb.value[1].shape = "errdict")
        => lastAgg.origin # "Cricbuzz"

\* The source's call was made and returned a non-empty result.
NonEmptyAnswer(a) == a.called /\ ~a.raised /\ a.value # <<>>

UsableCb == NonEmptyAnswer(lastAgg.cb)
               /\ \A i \in 1..Len(lastAgg.cb.value) : lastAgg.cb.value[i].fmt # "null"

UsableCs == NonEmptyAnswer(lastAgg.cs)

UsableApi == NonEmptyAnswer(lastAgg.api)
                /\ (lastAgg.op = "recent"
                      => \E i \in 1..Len(lastAgg.api.value) : lastAgg.api.value[i].date # "later")

AllSourcesDown ==
    /\ ~NonEmptyAnswer(lastAgg.cb)
    /\ ~NonEmptyAnswer(lastAgg.api)

\* C8: when every API key is absent and every live source is unreachable or
\* empty, get_live_cricket_matches returns the static fallback list, which is
\* non-empty and whose records are tagged with their origin, and it does not
\* raise.
C8_FallbackTagged ==
    (lastAgg.op = "live" /\ ~cfg.api /\ AllSourcesDown)
        => /\ ~lastAgg.raised
           /\ lastAgg.value = FALLBACK_LIVE_MATCH_DATA
           /\ lastAgg.value # <<>>
           /\ \A i \in 1..Len(lastAgg.value) : lastAgg.value[i].source # "absent"

(***************************************************************************)
(* Properties of get_player_stats (SpecPlayer).                            *)
(***************************************************************************)
\* The last call fetched fresh data and both the archive source and the
\* real-time source returned data for the player.
BothReturned ==
    /\ lastPlayer.path = "fresh"
    /\ lastPlayer.archive.shape # "none"
    /\ lastPlayer.archive.matches_played > 0
    /\ lastPlayer.realtime.shape # "none"

\* The archive record in application format, as the adapter holds it.
ArchiveRecord == convert_cricsheet_player_stats(lastPlayer.archive)

C2_RepeatIsIdenticalAndLocal ==
    (lastPlayer.repeat /\ lastPlayer.path = "cached" /\ lastPlayer.query = "Virat Kohli")
        => lastPlayer.identical /\ ~lastPlayer.apiCalled

(***************************************************************************)
(* Properties of the chat entry points (SpecChat).                         *)
(***************************************************************************)
\* C9: whatever the query, the model selected and the failures of the data
\* sources and of the LLM, AIManager.process_query returns a result whose
\* response is a non-empty text.
C9_AlwaysSomeText ==
    lastReply.op = "process_query" => lastReply.response = "text"

\* C10: process_cricket_query returns no later than its deadline (here with
\* one clock step of allowance) after it is called, however long a data
\* fetch or an LLM call takes.
C10_ReturnsByDeadline ==
    /\ chat.phase = "returned" => chat.returnedAt <= TOTAL_TIMEOUT + ChatStep
    /\ chat.phase \in {"waiting", "extracting"} => chat.clock <= TOTAL_TIMEOUT + ChatStep

\* C11: on the Gemini and the OpenAI path alike, when the generation call
\* fails, when the API is unavailable or unconfigured, or when the model's
\* response indicates missing information, the answer returned is the one
\* the rule-based router wrote.
C11_FallsBackToRules ==
    lastReply.op = "process_query" /\ lastReply.cause # "none"
        => lastReply.by = "rule_based"

(***************************************************************************)
(* Properties of normalize_player_name (SpecNames).                        *)
(***************************************************************************)
\* The ways of writing Virat Kohli the function is asked about: his full
\* name, the misspellings of the corrections table and his first and last
\* name alone.
KohliForms ==
    {Spell("Virat Kohli"), Spell("virat kohli"), Spell("virat kolhi"), Spell("kolhi"),
     Spell("virat"), Spell("kohli")}

\* C12: for every known misspelling, nickname or partial name of Virat
\* Kohli, "kolhi", "virat" and "Virat Kohli" among them,
\* normalize_player_name returns the one canonical string "Virat Kohli".
C12_OneCanonicalName ==
    nameCall.op = "normalize_player_name" /\ nameCall.input \in KohliForms
        => nameCall.output = Spell("Virat Kohli")

(***************************************************************************)
(* Properties of the recommendations (SpecPicks).                          *)
(***************************************************************************)
\* C13: no player owned by more than 50% is in the list
\* get_differential_picks returns, be the list freshly computed or served
\* from the recommendations cache.
C13_NoPopularPick ==
    lastRec.op = "get_differential_picks"
        => \A i \in 1..Len(lastRec.value) : lastRec.value[i].ownership.v <= 50

\* A non-empty list was served from the cache for teams that have a player
\* owned by 60%; and one was freshly computed for such teams.
C13_Witness ==
    /\ lastRec.op = "get_differential_picks"
    /\ ~lastRec.fresh
    /\ lastRec.value # <<>>
    /\ \E i \in 1..Len(lastRec.pool) : lastRec.pool[i].ownership.v = 60
    /\ \E i \in 1..Len(recCache.differential_picks.data) :
          recCache.differential_picks.data[i].name[1] = "star"

(***************************************************************************)
(* Properties of get_captain_picks (SpecCaptains).                         *)
(***************************************************************************)
\* The captain scores of the players the returned list was computed from.
PoolCaptainScores ==
    <<>> \o [i \in 1..Len(lastRec.pool) |->
        calculate_captain_score(lastRec.pool[i], lastRec.seed, i).score]

\* The entry is one of the three best of the pool: it is a player of the
\* pool with this score, and fewer than three players score higher.
AmongThreeBest(pick, scores) ==
    /\ \E i \in 1..Len(lastRec.pool) :
          lastRec.pool[i].name = pick.name /\ scores[i] = pick.captain_score
    /\ Cardinality({i \in 1..Len(lastRec.pool) : scores[i] > pick.captain_score}) < 3

\* C14: from a pool of at least 6 players get_captain_picks returns exactly
\* 6 entries, 3 recommended as Captain and 3 as Vice-Captain, and the 3
\* Captain entries are the players with the 3 highest captain scores of
\* the pool.
C14_CaptainsAreThreeBest ==
    lastRec.op = "get_captain_picks" /\ Len(lastRec.pool) >= 6
        => /\ Len(lastRec.value) = 6
           /\ Cardinality({p \in 1..6 : lastRec.value[p].recommendation = "Captain"}) = 3
           /\ Cardinality({p \in 1..6 : lastRec.value[p].recommendation = "Vice-Captain"}) = 3
           /\ Cardinality({lastRec.value[p].name : p \in 1..6}) = 6
           /\ \A scores \in {PoolCaptainScores} : \A p \in 1..6 :
                 lastRec.value[p].recommendation = "Captain"
                    => AmongThreeBest(lastRec.value[p], scores)

\* Captain picks were computed from seven players, of whom a low scorer
\* comes first in the team lists and is left out.
C14_Witness ==
    /\ lastRec.op = "get_captain_picks"
    /\ lastRec.fresh
    /\ Len(lastRec.pool) = 7
    /\ lastRec.pool[1].name[1] = "fringe"
    /\ Len(lastRec.value) = 6
    /\ \A p \in 1..6 : lastRec.value[p].name # lastRec.pool[1].name

(***************************************************************************)
(* Properties of get_pitch_conditions and of the match records             *)
(* (SpecMatches).                                                          *)
(***************************************************************************)
\* C15: whatever the venue, get_pitch_conditions returns a dict with
\* exactly the keys batting_friendly, pace_friendly and spin_friendly, each
\* value from 0 to 10, also when no source has pitch data for the venue.
C15_ThreeScoresAlways ==
    lastPitch.op = "get_pitch_conditions"
        => /\ DOMAIN lastPitch.value = {"batting_friendly", "pace_friendly", "spin_friendly"}
           /\ \A k \in DOMAIN lastPitch.value : lastPitch.value[k] \in 0..10

\* C16: every record an aggregator read of live, upcoming or recent matches
\* returns, from whichever source or fallback table, has pitch_conditions.
C16_EveryRecordHasPitch ==
    IsListRead => \A i \in 1..Len(lastAgg.value) : lastAgg.value[i].pitch

(***************************************************************************)
(* Properties of the list get_differential_picks returns (SpecPicks).      *)
(***************************************************************************)
\* The differential scores of the players the returned list was computed
\* from.
PoolDifferentialScores ==
    <<>> \o [i \in 1..Len(lastRec.pool) |->
        calculate_differential_score(lastRec.pool[i], lastRec.seed, i).score]

\* The returned list is the five best of the players q of the pool, best
\* first, or all of q when q has fewer than five players.
FiveBestOf(q, scores) ==
    LET v == lastRec.value
    IN  /\ Len(v) = (IF Cardinality(q) < 5 THEN Cardinality(q) ELSE 5)
        /\ Cardinality({v[p].name : p \in 1..Len(v)}) = Len(v)
        /\ \A p \in 1..Len(v) :
              /\ \E i \in q : lastRec.pool[i].name = v[p].name
                                /\ scores[i] = v[p].differential_score
              /\ Cardinality({i \in q : scores[i] > v[p].differential_score}) < 5
        /\ \A p \in 1..(Len(v) - 1) : v[p].differential_score >= v[p + 1].differential_score

\* C17 as stated: get_differential_picks returns the players owned by at
\* most 50% with the 5 highest differential scores, best first, and all of
\* them when they are fewer than 5.
C17_FiveBestOfEligible ==
    lastRec.op = "get_differential_picks"
        => \A scores \in {PoolDifferentialScores} :
              FiveBestOf({i \in 1..Len(lastRec.pool) : lastRec.pool[i].ownership.v <= 50},
                         scores)

\* C17 as the code has it: get_differential_picks returns, of the players
\* owned by at most 50% whose differential score is above 7.0, the 5 with
\* the highest scores, best first, and all of them when they are fewer
\* than 5.
C17_FiveBestAboveThreshold ==
    lastRec.op = "get_differential_picks"
        => \A scores \in {PoolDifferentialScores} :
              FiveBestOf({i \in 1..Len(lastRec.pool) :
                            lastRec.pool[i].ownership.v <= 50 /\ scores[i] > 70},
                         scores)

\* A fresh list of five was cut from more than five players above the
\* threshold, and a player owned by 50% who scored 7.0 or less was left out.
C17_Witness ==
    /\ lastRec.op = "get_differential_picks"
    /\ lastRec.fresh
    /\ Len(lastRec.value) = 5
    /\ \A scores \in {PoolDifferentialScores} :
          /\ Cardinality({i \in 1..Len(lastRec.pool) :
                            lastRec.pool[i].ownership.v <= 50 /\ scores[i] > 70}) > 5
          /\ \E i \in 1..Len(lastRec.pool) :
                /\ lastRec.pool[i].ownership.v = 50
                /\ scores[i] <= 70
                /\ \A p \in 1..5 : lastRec.value[p].name # lastRec.pool[i].name

(***************************************************************************)
(* Properties of the scoring functions (SpecScores).                       *)
(***************************************************************************)
\* C18: the differential, captain and comparison scoring functions never
\* raise for a player record of which any fields are missing or
\* unpopulated.
C18_ScoringNeverRaises ==
    lastScore.op # "none" => ~lastScore.raised

(***************************************************************************)
(* Properties of the comparison of two players (SpecCompare).              *)
(***************************************************************************)
\* C19: comparing "Rohit Sharma" with "Virat Kohli" returns a
\* recommendation that names exactly one of the two as the pick, with a
\* non-empty reasoning that quotes at least one concrete stat.
C19_OnePickWithStat ==
    lastCompare.op # "none"
        => /\ lastCompare.pick \in {"Rohit Sharma", "Virat Kohli"}
           /\ lastCompare.reasoning.template # "none"
           /\ lastCompare.reasoning.reasons # <<>>

(***************************************************************************)
(* Properties of the rule-based router (SpecRouter).                       *)
(***************************************************************************)
\* C20: for the query "Show me stats for Virat Kohli" the router chooses
\* the player-stats intent, the first test in its order that succeeds, and
\* returns a card with the name "Virat Kohli", the team "India" and the
\* role "Batsman".
C20_KohliCard ==
    lastRoute.query = "Show me stats for Virat Kohli"
        => /\ lastRoute.intent = "player_stats"
           /\ lastRoute.card.name = "Virat Kohli"
           /\ lastRoute.card.team = "India"
           /\ lastRoute.card.role = "Batsman"

(***************************************************************************)
(* Properties of the AIManager (SpecManager).                              *)
(***************************************************************************)
\* C21: after construction and after any sequence of set_default_model
\* calls the default model is one of the available models; constructing
\* with an unavailable default yields rule-based, and set_default_model
\* with an unavailable model returns False and leaves the default as it was.
C21_DefaultIsAvailable ==
    manager.op # "none"
        => /\ manager.default_model \in Members(manager.available_models)
           /\ (manager.op = "__init__" /\ manager.arg \notin Members(manager.available_models))
                 => manager.default_model = "rule-based"
           /\ (manager.op = "set_default_model"
                    /\ manager.arg \notin Members(manager.available_models))
                 => ~manager.result /\ manager.default_model = manager.before

\* An unavailable model was refused after an available one other than
\* rule-based had been made the default.
C21_Witness ==
    /\ manager.op = "set_default_model"
    /\ manager.arg = "openai"
    /\ manager.arg \notin Members(manager.available_models)
    /\ ~manager.result
    /\ manager.default_model = "gemini"
    /\ manager.calls >= 2

(***************************************************************************)
(* Properties of the parallel fetch (SpecFetch).                           *)
(***************************************************************************)
\* The part of data that is taken from results[k].
DataOf(k) ==
    CASE k = "player" -> fetch.data.player_data
      [] k = "match" -> fetch.data.match_data
      [] k = "fantasy" -> fetch.data.fantasy_data
      [] OTHER -> fetch.data.general_data

\* C22: the data returned after the join deadline holds only the results of
\* the threads that had completed by then, and a thread still running at
\* the deadline never updates results while or after the caller reads it.
C22_OnlyJoinedResults ==
    (fetch.pc = "returned" /\ fetch.timed_out)
        => /\ \A k \in Members(FetchKeys) : DataOf(k) # "none" => k \in fetch.joined
           /\ fetch.late = {}

(***************************************************************************)
(* Properties of the unlocked cache files (SpecDisk).                      *)
(***************************************************************************)
\* C23: under concurrent reads and writes of one cache file every read
\* that finds the file yields exactly the complete record written by one
\* writer, never a partially written or mixed one.
C23_ReadsAreWhole ==
    (disk.read.op = "load" /\ disk.read.found)
        => /\ disk.read.kind = "record"
           /\ disk.read.by \in Writers
           /\ is_whole_record(disk.read.text)

(***************************************************************************)
(* Properties of the player file over time (SpecPlayer).                   *)
(***************************************************************************)
\* C24: a get_player_stats call that does not answer from its 24-hour
\* cache builds the historical fields from the archive's own statistics:
\* what the Cricsheet parser hands to the converter is never a record
\* the adapter had already converted and stored in the player file.
C24_ArchiveDataIsRaw ==
    (lastPlayer.op = "get_player_stats" /\ lastPlayer.path = "fresh" /\ ~lastPlayer.force)
        => /\ lastPlayer.archive.shape \in {"none", "raw"}
           /\ lastPlayer.value.hist \notin {"zeros", "table_runs"}

\* C25: a cached player record is served for less than 24 hours after it
\* was last built on the fresh path (the time its last_updated holds),
\* however many cache hits came in between.
C25_RebuiltWithinADay ==
    (lastPlayer.op = "get_player_stats" /\ lastPlayer.path = "cached")
        => (lastPlayer.at - lastPlayer.value.last_updated) < PLAYER_FILE_EXPIRY

\* C26: after an answer from the fallback table because every source
\* failed, the next call for the same player without force_refresh within
\* 24 hours, made when a source has statistics again, returns that
\* source's data and not the fallback record that was stored.
C26_FallbackNotSticky ==
    (/\ lastPlayer.op = "get_player_stats"
     /\ lastPlayer.repeat
     /\ sources.archive \/ sources.realtime)
        => lastPlayer.value.hist # "fallback"

(***************************************************************************)
(* Properties of the fallback table (SpecTable).                           *)
(***************************************************************************)
\* C27: aggregator and recommendation calls never modify the fallback
\* table of players: after any sequence of calls every entry equals its
\* initial value.
C27_TableUntouched == table.entries = FALLBACK_PLAYER_DATA

(***************************************************************************)
(* Properties of the picks for one match (SpecMatchPicks).                 *)
(***************************************************************************)
\* C28: the result of get_differential_picks(match_id=m) is the list of
\* picks computed from the players of the match m, never a list computed
\* (or cached) for another match or for a call without match_id.
C28_PicksOfThatMatch ==
    (lastPick.op = "get_differential_picks" /\ lastPick.match_id # "")
        => \/ /\ lastPick.value = <<>>
              /\ lastPick.pool = <<>>
           \/ /\ lastPick.match_id \in DOMAIN PickMatches
              /\ lastPick.pool = PickMatches[lastPick.match_id].pool

(***************************************************************************)
(* Properties of the help menu (SpecHelp).                                 *)
(***************************************************************************)
\* C29: each example query of the help menu is dispatched to the handler
\* of the intent the menu lists it under; no test earlier in the order
\* captures it.
C29_ExamplesReachTheirIntent ==
    \A k \in DOMAIN HelpMenu :
        (helpLog.op = "generate_response" /\ helpLog.query = HelpMenu[k])
            => helpLog.intent = k

(***************************************************************************)
(* Properties of the list of recent matches (SpecMatches).                 *)
(***************************************************************************)
\* C30: every record get_recent_matches returns denotes a match already
\* played, from whatever tier it comes: none has the status Upcoming.
C30_RecentNeverUpcoming ==
    lastAgg.op = "recent"
        => \A i \in 1..Len(lastAgg.value) : lastAgg.value[i].status # "Upcoming"

====
